---- MODULE Spec2Model ----
(***************************************************************************)
(* Model of nestjs-psf: the @Paginate parameter factory, the offset        *)
(* (PagedPaginator) and keyset (CursorPaginator) paginators of             *)
(* src/lib/paginators.ts, over a table of Test entities (id, name, email). *)
(*                                                                         *)
(* A client session is modelled: the table, the sort spec and the page     *)
(* size are fixed by the request parameters; the client issues cursor      *)
(* requests (with or without a cursor, in either direction), follows the   *)
(* next / prev links of the page it holds, and issues offset requests.     *)
(***************************************************************************)
EXTENDS Integers, Sequences, FiniteSets, TLC

\* ------------------------------------------------------------------ bounds
MaxRecords == 13        \* ids handed out by the table's generated id column
MaxPageSize == 11       \* largest pageSize query parameter a client sends
MaxPage == 3            \* largest page query parameter a client sends
MaxVal == 2             \* column values of inserted rows range over 0..MaxVal
MaxMutations == 2       \* inserts + deletes between the fetches of a session
MaxSortLen == 5         \* longest sort parameter, in characters
MaxStemTokens == 3      \* longest filter key before its operator suffix, in tokens

\* ------------------------------------------------------- program constants
DefaultPageSize == 10   \* parseInt(req.query.pageSize) || 10
HardPage == 10          \* the literal 10 of results[10] / slice(0, 10)

Null == [null |-> TRUE]

\* ------------------------------------------------------ query-string values
\* A raw query parameter is a sequence of characters; Render is the decimal
\* rendering a client (or URLSearchParams.set(k, n.toString())) produces.
Digits == <<"0", "1", "2", "3", "4", "5", "6", "7", "8", "9">>

DigitVal(c) == (CHOOSE i \in 1..10 : Digits[i] = c) - 1

IsDigit(c) == \E i \in 1..10 : Digits[i] = c

RECURSIVE RenderNat(_)
RenderNat(n) == IF n < 10 THEN <<Digits[n + 1]>>
                ELSE Append(RenderNat(n \div 10), Digits[(n % 10) + 1])

Render(n) == IF n < 0 THEN <<"-">> \o RenderNat(0 - n) ELSE RenderNat(n)

\* parseInt: optional sign, then the longest prefix of digits; NaN (here the
\* record [nan |-> TRUE]) when there is no digit.  [nan |-> FALSE, val |-> n]
\* otherwise.
RECURSIVE DigitPrefix(_, _)
DigitPrefix(s, accu) ==
  IF s = <<>> \/ ~IsDigit(Head(s)) THEN accu
  ELSE DigitPrefix(Tail(s), accu * 10 + DigitVal(Head(s)))

parseInt(s) ==
  LET neg  == s # <<>> /\ Head(s) = "-"
      body == IF neg THEN Tail(s) ELSE s
  IN  IF body = <<>> \/ ~IsDigit(Head(body)) THEN [nan |-> TRUE, val |-> 0]
      ELSE [nan |-> FALSE,
            val |-> IF neg THEN 0 - DigitPrefix(body, 0) ELSE DigitPrefix(body, 0)]

\* JavaScript `parseInt(x) || d`: NaN and 0 are falsy.
OrDefault(p, d) == IF p.nan \/ p.val = 0 THEN d ELSE p.val

\* The raw values a client sends for a numeric parameter: absent, junk,
\* a number with trailing junk, and the decimal renderings of -1, 0, 1 and
\* of lo..max.
RawNumbers(lo, max) ==
  {<<>>, <<"x">>, <<"2", "x">>} \cup {Render(n) : n \in ((0 - 1)..1) \cup (lo..max)}

\* ------------------------------------------------------------- @Paginate
\* config.maxPageSize = 0 stands for "not configured" (falsy).
Paginate(rawPageSize, maxPageSize) ==
  LET pageSize0 == OrDefault(parseInt(rawPageSize), DefaultPageSize)
  IN  IF maxPageSize # 0
        THEN (IF pageSize0 < maxPageSize THEN pageSize0 ELSE maxPageSize)
        ELSE pageSize0

\* ------------------------------------------------------------ data source
\* A row of the Test entity.  table maps the ids in use to their rows.
Row(id, name, email) == [id |-> id, name |-> name, email |-> email]

Rows(tbl) == {tbl[i] : i \in DOMAIN tbl}

\* qb.addOrderBy(key, order): expressionMap.orderBys is an object, so a key
\* already present keeps its position and takes the new direction.
addOrderBy(orderBys, key, order) ==
  IF \E i \in 1..Len(orderBys) : orderBys[i].key = key
    THEN [i \in 1..Len(orderBys) |->
            IF orderBys[i].key = key THEN [key |-> key, order |-> order]
            ELSE orderBys[i]]
    ELSE Append(orderBys, [key |-> key, order |-> order])

\* SelectQueryBuilder.sortAndFilter, sort part: one addOrderBy per entry of
\* params.sort, in listed order.
RECURSIVE sortAndFilterOrder(_, _)
sortAndFilterOrder(orderBys, sort) ==
  IF sort = <<>> THEN orderBys
  ELSE sortAndFilterOrder(addOrderBy(orderBys, Head(sort).key, Head(sort).order),
                          Tail(sort))

\* r sorts strictly before s under ORDER BY orderBys.
Before(r, s, orderBys) ==
  \E n \in 1..Len(orderBys) :
     /\ \A i \in 1..(n - 1) : r[orderBys[i].key] = s[orderBys[i].key]
     /\ IF orderBys[n].order = "DESC"
          THEN r[orderBys[n].key] > s[orderBys[n].key]
          ELSE r[orderBys[n].key] < s[orderBys[n].key]

\* The rows of S in ORDER BY orderBys.  Rows the ordering does not separate
\* come back in id order (the order the data source happens to use).
OrderedRows(S, orderBys) ==
  LET lt(r, s) == Before(r, s, orderBys)
                    \/ (~Before(s, r, orderBys) /\ r.id < s.id)
      rank == [r \in S |-> Cardinality({s \in S : lt(s, r)}) + 1]
  IN  [k \in 1..Cardinality(S) |-> CHOOSE r \in S : rank[r] = k]

Take(seq, n) == SubSeq(seq, 1, IF n < Len(seq) THEN n ELSE Len(seq))

Reverse(seq) == [i \in 1..Len(seq) |-> seq[Len(seq) + 1 - i]]

\* qb.limit(limit).getMany() over the rows matching the where clause.
getMany(S, orderBys, limit) == Take(OrderedRows(S, orderBys), limit)

\* qb.limit(1).getOne(): the first row, or nothing.
getOne(S, orderBys) ==
  IF S = {} THEN Null
  ELSE CHOOSE r \in S :
         \A s \in S \ {r} : Before(r, s, orderBys)
                               \/ (~Before(s, r, orderBys) /\ r.id < s.id)

\* ------------------------------------------------------- CursorPaginator
TypeError == [status |-> "error", error |-> "TypeError"]

cursorDir(query) == IF query.cursorDir = "prev" THEN "prev" ELSE "next"

reverse(dir) == IF dir = "ASC" THEN "DESC" ELSE "ASC"

reverseAllOrderBy(orderBys) ==
  [i \in 1..Len(orderBys) |->
     [key |-> orderBys[i].key, order |-> reverse(orderBys[i].order)]]

\* Mutant: the `equals` flag is ignored, every comparison is strict.
comparitorStrict(dir, equals) ==
  IF dir = "DESC" THEN "<" ELSE ">"

comparitor(dir, equals) ==
  LET res == IF dir = "DESC" THEN "<" ELSE ">"
  IN  IF equals THEN res \o "=" ELSE res

\* The SQL comparison `a comp b`.
Compare(a, comp, b) ==
  CASE comp = ">"  -> a > b
    [] comp = "<"  -> a < b
    [] comp = ">=" -> a >= b
    [] comp = "<=" -> a <= b

\* Mutant: the disjuncts compare their own column only, without the
\* equalities on the columns before it.
seekWhereNoPrefix(row, orderBys, cursor, thisRecord) ==
  IF Len(orderBys) = 1
    THEN Compare(row[orderBys[1].key], comparitor(orderBys[1].order, TRUE), cursor)
    ELSE \E n \in 1..Len(orderBys) :
           Compare(row[orderBys[n].key],
                   comparitor(orderBys[n].order, orderBys[n].key = "id"),
                   thisRecord[orderBys[n].key])

\* The where clause added for the cursor.  One ordering: `id comp :cursor`.
\* Several: the loop pops the tiebreaker n = k, k-1, .., 1 and ORs
\*   (c1 = v1 AND .. AND c(n-1) = v(n-1) AND cn comp vn)
\* with the values v read from thisRecord.
seekWhere(row, orderBys, cursor, thisRecord) ==
  IF Len(orderBys) = 1
    THEN Compare(row[orderBys[1].key], comparitor(orderBys[1].order, TRUE), cursor)
    ELSE \E n \in 1..Len(orderBys) :
           /\ \A i \in 1..(n - 1) :
                 row[orderBys[i].key] = thisRecord[orderBys[i].key]
           /\ Compare(row[orderBys[n].key],
                      comparitor(orderBys[n].order, orderBys[n].key = "id"),
                      thisRecord[orderBys[n].key])

\* linkFor(cursor, dir): `if (cursor)` leaves the parameter out for null.
linkFor(cursor, dir, pageSize) ==
  [cursor |-> cursor, cursorDir |-> dir, pageSize |-> pageSize]

\* Mutant: the next link carries the last row of the page, not the probe row.
forwardPageLastAsCursor(results, cursor, firstRecord, pageSize) ==
  LET hasMore == Len(results) > HardPage
  IN  IF firstRecord = Null THEN TypeError
      ELSE [status  |-> "ok",
            results |-> Take(results, HardPage),
            links   |-> [first |-> linkFor(0, "next", pageSize),
                         last  |-> linkFor(0, "prev", pageSize),
                         next  |-> IF hasMore
                                     THEN linkFor(results[HardPage].id, "next", pageSize)
                                     ELSE Null,
                         prev  |-> IF cursor = firstRecord.id THEN Null
                                   ELSE linkFor(cursor, "prev", pageSize)]]

\* cursorDir == 'next': links and trimming of the fetched rows.
forwardPage(results, cursor, firstRecord, pageSize) ==
  LET hasMore == Len(results) > HardPage
  IN  IF firstRecord = Null THEN TypeError
      ELSE [status  |-> "ok",
            results |-> Take(results, HardPage),
            links   |-> [first |-> linkFor(0, "next", pageSize),
                         last  |-> linkFor(0, "prev", pageSize),
                         next  |-> IF hasMore
                                     THEN linkFor(results[HardPage + 1].id, "next", pageSize)
                                     ELSE Null,
                         prev  |-> IF cursor = firstRecord.id THEN Null
                                   ELSE linkFor(cursor, "prev", pageSize)]]

\* Mutant: the fetched rows are trimmed but not reversed.
backwardPageUnreversed(results, cursor, hasQueryCursor, pageSize) ==
  LET last    == IF hasQueryCursor THEN HardPage + 1 ELSE HardPage
      hasMore == Len(results) > last
      shifted == IF hasQueryCursor /\ results # <<>> THEN Tail(results) ELSE results
      popped  == IF hasMore THEN SubSeq(shifted, 1, Len(shifted) - 1) ELSE shifted
  IN  [status  |-> "ok",
       results |-> Take(popped, HardPage),
       links   |-> [first |-> linkFor(0, "next", pageSize),
                    last  |-> linkFor(0, "prev", pageSize),
                    next  |-> linkFor(cursor, "next", pageSize),
                    prev  |-> IF hasMore
                                THEN linkFor(results[last].id, "prev", pageSize)
                                ELSE Null]]

\* Mutant: the cursor's row is not shifted off the fetched rows.
backwardPageKeepCursor(results, cursor, hasQueryCursor, pageSize) ==
  LET last    == IF hasQueryCursor THEN HardPage + 1 ELSE HardPage
      hasMore == Len(results) > last
      popped  == IF hasMore THEN SubSeq(results, 1, Len(results) - 1) ELSE results
  IN  [status  |-> "ok",
       results |-> Reverse(Take(popped, HardPage)),
       links   |-> [first |-> linkFor(0, "next", pageSize),
                    last  |-> linkFor(0, "prev", pageSize),
                    next  |-> linkFor(cursor, "next", pageSize),
                    prev  |-> IF hasMore
                                THEN linkFor(results[last].id, "prev", pageSize)
                                ELSE Null]]

\* cursorDir == 'prev': links, trimming and the in-memory reverse.
backwardPage(results, cursor, hasQueryCursor, pageSize) ==
  LET last    == IF hasQueryCursor THEN HardPage + 1 ELSE HardPage
      hasMore == Len(results) > last
      shifted == IF hasQueryCursor /\ results # <<>> THEN Tail(results) ELSE results
      popped  == IF hasMore THEN SubSeq(shifted, 1, Len(shifted) - 1) ELSE shifted
  IN  [status  |-> "ok",
       results |-> Reverse(Take(popped, HardPage)),
       links   |-> [first |-> linkFor(0, "next", pageSize),
                    last  |-> linkFor(0, "prev", pageSize),
                    next  |-> linkFor(cursor, "next", pageSize),
                    prev  |-> IF hasMore
                                THEN linkFor(results[last].id, "prev", pageSize)
                                ELSE Null]]

\* The effective ordering of a cursor request: the caller's sort, then id.
effectiveOrder(sort) == addOrderBy(sortAndFilterOrder(<<>>, sort), "id", "ASC")

\* The limit of the window query: one probe row forward, two backward.
cursorLimit(dir, pageSize) == IF dir = "next" THEN pageSize + 1 ELSE pageSize + 2

\* CursorPaginator.paginate.  query.cursor = 0 stands for "no cursor".
CursorPaginate(tbl, sort, pageSize, query) ==
  LET qbOrder     == effectiveOrder(sort)
      firstRecord == getOne(Rows(tbl), qbOrder)
      dir         == cursorDir(query)
  IN  IF query.cursor = 0 /\ firstRecord = Null THEN TypeError
      ELSE
        LET cursor     == IF query.cursor # 0 THEN query.cursor
                          ELSE IF dir = "prev"
                                 THEN getOne(Rows(tbl), reverseAllOrderBy(qbOrder)).id
                                 ELSE firstRecord.id
            orderBys   == IF dir = "prev" THEN reverseAllOrderBy(qbOrder) ELSE qbOrder
            thisRecord == IF cursor \in DOMAIN tbl THEN tbl[cursor] ELSE Null
        IN  IF Len(orderBys) # 1 /\ thisRecord = Null THEN TypeError
            ELSE
              LET results == getMany({r \in Rows(tbl) :
                                        seekWhere(r, orderBys, cursor, thisRecord)},
                                     orderBys, cursorLimit(dir, pageSize))
              IN  IF dir = "next"
                    THEN forwardPage(results, cursor, firstRecord, pageSize)
                    ELSE backwardPage(results, cursor, query.cursor # 0, pageSize)

\* -------------------------------------------------------- PagedPaginator
\* Math.floor(a / b) for b # 0.
FloorDiv(a, b) == IF b > 0 THEN a \div b ELSE (0 - a) \div (0 - b)

\* The constructor's this.page = parseInt(params.query.page) || 1.
pagedPage(rawPage) == OrDefault(parseInt(rawPage), 1)

\* The window the offset paginator asks the data source for.
\* Mutant: the window of a zero-based page number.
pagedWindowZeroBased(page, pageSize) == [skip |-> page * pageSize, take |-> pageSize]

pagedWindow(page, pageSize) == [skip |-> (page - 1) * pageSize, take |-> pageSize]

\* Mutant: floor(count / pageSize) + 1, one page too many on an exact multiple.
pagedPageCountOfCount(count, pageSize) ==
  IF count = 0 THEN 0 ELSE FloorDiv(count, pageSize) + 1

pagedPageCount(count, pageSize) ==
  IF count = 0 THEN 0 ELSE FloorDiv(count - 1, pageSize) + 1

pagedLink(page, pageSize) == [page |-> page, pageSize |-> pageSize]

\* Mutant: links.last targets pageCount itself, page 0 of an empty table.
pagedLinksLastIsPageCount(page, pageSize, pageCount) ==
  [first |-> pagedLink(1, pageSize),
   last  |-> pagedLink(pageCount, pageSize),
   prev  |-> IF page > 1 THEN pagedLink(page - 1, pageSize) ELSE Null,
   next  |-> IF page < pageCount THEN pagedLink(page + 1, pageSize) ELSE Null]

pagedLinks(page, pageSize, pageCount) ==
  [first |-> pagedLink(1, pageSize),
   last  |-> pagedLink(IF pageCount > 1 THEN pageCount ELSE 1, pageSize),
   prev  |-> IF page > 1 THEN pagedLink(page - 1, pageSize) ELSE Null,
   next  |-> IF page < pageCount THEN pagedLink(page + 1, pageSize) ELSE Null]

\* getManyAndCount() under skip / take.  The data source refuses a negative
\* OFFSET or LIMIT; the failure propagates to the caller.
QueryFailedError == [status |-> "error", error |-> "QueryFailedError"]

\* PagedPaginator.paginate.
PagedPaginate(tbl, sort, pageSize, rawPage) ==
  LET page   == pagedPage(rawPage)
      window == pagedWindow(page, pageSize)
      sorted == OrderedRows(Rows(tbl), sortAndFilterOrder(<<>>, sort))
      count  == Cardinality(DOMAIN tbl)
      pageCount == pagedPageCount(count, pageSize)
  IN  IF window.skip < 0 \/ window.take < 0 THEN QueryFailedError
      ELSE [status  |-> "ok",
            results |-> SubSeq(sorted, window.skip + 1,
                               IF window.skip + window.take < Len(sorted)
                                 THEN window.skip + window.take ELSE Len(sorted)),
            meta    |-> [pageCount |-> pageCount, pageSize |-> pageSize,
                         page |-> page, count |-> count],
            links   |-> pagedLinks(page, pageSize, pageCount)]

\* --------------------------------------------------------- @SortAndFilter
\* Strings are sequences of characters.  s starts with p.
startsWith(s, p) == Len(p) <= Len(s) /\ SubSeq(s, 1, Len(p)) = p

\* s.indexOf(sep): the first position where sep occurs, 0 when it does not
\* (JavaScript's -1).
indexOf(s, sep) ==
  IF \E i \in 1..Len(s) : startsWith(SubSeq(s, i, Len(s)), sep)
    THEN CHOOSE i \in 1..Len(s) :
           /\ startsWith(SubSeq(s, i, Len(s)), sep)
           /\ \A j \in 1..(i - 1) : ~startsWith(SubSeq(s, j, Len(s)), sep)
    ELSE 0

\* s.split(sep) for a non-empty separator: the pieces between the leftmost
\* occurrences of sep, empty pieces included.
RECURSIVE split(_, _)
split(s, sep) ==
  LET i == indexOf(s, sep)
  IN  IF i = 0 THEN <<s>>
      ELSE <<SubSeq(s, 1, i - 1)>> \o split(SubSeq(s, i + Len(sep), Len(s)), sep)

\* parts.join(sep).
RECURSIVE join(_, _)
join(parts, sep) ==
  IF parts = <<>> THEN <<>>
  ELSE IF Len(parts) = 1 THEN parts[1]
  ELSE parts[1] \o sep \o join(Tail(parts), sep)

\* list.includes(x).
includes(list, x) == \E i \in 1..Len(list) : list[i] = x

\* A property name that is an array index ("0", "7", "12"): such keys come
\* first, in ascending numeric order, when an object's entries are listed.
\* (Names this model builds stay far below the 2^32 - 2 limit of an index.)
IsArrayIndex(key) ==
  /\ key # <<>>
  /\ \A i \in 1..Len(key) : IsDigit(key[i])
  /\ (Len(key) = 1 \/ key[1] # "0")

\* obj[entry.key] = entry on an object listed by Object.entries as the
\* sequence obj: a key already present keeps its place; a new array-index key
\* goes among the array-index keys by value; any other new key goes last.
objectSet(obj, entry) ==
  IF \E i \in 1..Len(obj) : obj[i].key = entry.key
    THEN [i \in 1..Len(obj) |-> IF obj[i].key = entry.key THEN entry ELSE obj[i]]
  ELSE IF IsArrayIndex(entry.key)
    THEN LET n == Cardinality({i \in 1..Len(obj) :
                                 /\ IsArrayIndex(obj[i].key)
                                 /\ DigitPrefix(obj[i].key, 0) < DigitPrefix(entry.key, 0)})
         IN  SubSeq(obj, 1, n) \o <<entry>> \o SubSeq(obj, n + 1, Len(obj))
  ELSE Append(obj, entry)

\* config.sortable / config.filterable: an allow-list, or not configured.
NotConfigured == [configured |-> FALSE, names |-> <<>>]

AllowList(names) == [configured |-> TRUE, names |-> names]

\* Mutant: the allow-list is not consulted.
sortKeptAnyEntry(c, sortable) == c # <<>>

\* The filter callback of the sort entries: with an allow-list, the entry as
\* written or the entry without its leading '-' must be in it; without one,
\* `return c` keeps every non-empty entry.
sortKept(c, sortable) ==
  IF sortable.configured
    THEN \/ includes(sortable.names, c)
         \/ (c # <<>> /\ c[1] = "-" /\ includes(sortable.names, Tail(c)))
    ELSE c # <<>>

\* Mutant: the leading '-' sets DESC but is not sliced off the column name.
sortEntryKeepsSign(sortColumn) ==
  IF sortColumn # <<>> /\ sortColumn[1] = "-"
    THEN [key |-> sortColumn, order |-> "DESC"]
    ELSE [key |-> sortColumn, order |-> "ASC"]

\* The forEach callback: direction and column of one entry.
sortEntry(sortColumn) ==
  IF sortColumn # <<>> /\ sortColumn[1] = "-"
    THEN [key |-> Tail(sortColumn), order |-> "DESC"]
    ELSE [key |-> sortColumn, order |-> "ASC"]

\* sort[sortColumn] = dir for each kept entry, in listed order.
RECURSIVE sortEach(_, _)
sortEach(sort, entries) ==
  IF entries = <<>> THEN sort
  ELSE sortEach(objectSet(sort, sortEntry(Head(entries))), Tail(entries))

\* The sort block of the decorator; an absent or empty parameter is falsy.
SortAndFilterSort(rawSort, sortable) ==
  IF rawSort = <<>> THEN <<>>
  ELSE LET keep(c) == sortKept(c, sortable)
       IN  sortEach(<<>>, SelectSeq(split(rawSort, <<",">>), keep))

\* enum SearchOps.
EQUALS == <<"e", "q">>

NOTEQUALS == <<"n", "e", "q">>

CONTAINS == <<"c", "o", "n", "t", "a", "i", "n", "s">>

ICONTAINS == <<"i">> \o CONTAINS

GT == <<"g", "t">>

LT == <<"l", "t">>

GTE == <<"g", "t", "e">>

LTE == <<"l", "t", "e">>

STARTSWITH == <<"s", "t", "a", "r", "t", "s", "w", "i", "t", "h">>

ENDSWITH == <<"e", "n", "d", "s", "w", "i", "t", "h">>

HAS == <<"h", "a", "s">>

SearchOps ==
  { EQUALS, NOTEQUALS, CONTAINS, ICONTAINS, GT, LT, GTE, LTE, STARTSWITH,
    ENDSWITH, HAS }

\* Mutant: an unrecognized operator token leaves the key unsplit.
filterKeyOpUnsplit(key) ==
  LET parts == split(key, <<"_", "_">>)
  IN  IF indexOf(key, <<"_", "_">>) # 0
        THEN (IF parts[2] \in SearchOps THEN [key |-> parts[1], op |-> parts[2]]
                                        ELSE [key |-> key, op |-> EQUALS])
        ELSE [key |-> key, op |-> EQUALS]

\* The operator split: with "__" in the key, the key becomes the first piece
\* and the second piece is the operator when SearchOps has it.
filterKeyOp(key) ==
  LET parts == split(key, <<"_", "_">>)
  IN  IF indexOf(key, <<"_", "_">>) # 0
        THEN [key |-> parts[1],
              op  |-> IF parts[2] \in SearchOps THEN parts[2] ELSE EQUALS]
        ELSE [key |-> key, op |-> EQUALS]

\* Mutant: the value is the piece after the first ':' only.
filterValueSecondPiece(splits) == IF Len(splits) > 1 THEN splits[2] ELSE <<>>

\* splits.slice(1).join(':').
filterValue(splits) == join(Tail(splits), <<":">>)

\* The forEach callback of the filter clauses.
filterClause(filter, filterColumn, filterable) ==
  LET splits == split(filterColumn, <<":">>)
      key    == splits[1]
      value  == filterValue(splits)
  IN  IF key # <<>> /\ value # <<>>
        THEN LET ko == filterKeyOp(key)
             IN  IF ~filterable.configured \/ includes(filterable.names, ko.key)
                   THEN objectSet(filter, [key |-> ko.key, op |-> ko.op, value |-> value])
                   ELSE filter
        ELSE filter

RECURSIVE filterEach(_, _, _)
filterEach(filter, clauses, filterable) ==
  IF clauses = <<>> THEN filter
  ELSE filterEach(filterClause(filter, Head(clauses), filterable),
                  Tail(clauses), filterable)

\* The filter block of the decorator.
SortAndFilterFilter(rawFilter, filterable) ==
  IF rawFilter = <<>> THEN <<>>
  ELSE filterEach(<<>>, split(rawFilter, <<",">>), filterable)

\* The @SortAndFilter factory: query carries the raw sort and filter
\* parameters (<<>> when absent), config the two allow-lists.
SortAndFilter(config, query) ==
  [sort   |-> SortAndFilterSort(query.sort, config.sortable),
   filter |-> SortAndFilterFilter(query.filter, config.filterable)]

\* sortAndFilter(params), the repository helper: options.order is set only
\* when params.sort has an entry.  (No filter is modelled here.)
sortAndFilterOptions(sort) ==
  IF sort = <<>> THEN [k \in {} |-> 0] ELSE [k \in {"order"} |-> sort]

\* { skip, take: this.pageSize, ...options }: the caller's options are spread
\* last, so a key they carry replaces the paginator's.
findOptions(window, options) ==
  [k \in {"skip", "take"} \cup DOMAIN options |->
     IF k \in DOMAIN options THEN options[k] ELSE window[k]]

\* PagedPaginator.paginateRepo.
PagedPaginateRepo(tbl, options, pageSize, rawPage) ==
  LET page   == pagedPage(rawPage)
      find   == findOptions(pagedWindow(page, pageSize), options)
      order  == IF "order" \in DOMAIN find THEN find.order ELSE <<>>
      sorted == OrderedRows(Rows(tbl), order)
      count  == Cardinality(DOMAIN tbl)
      pageCount == pagedPageCount(count, pageSize)
  IN  IF find.skip < 0 \/ find.take < 0 THEN QueryFailedError
      ELSE [status  |-> "ok",
            results |-> SubSeq(sorted, find.skip + 1,
                               IF find.skip + find.take < Len(sorted)
                                 THEN find.skip + find.take ELSE Len(sorted)),
            meta    |-> [pageCount |-> pageCount, pageSize |-> pageSize,
                         page |-> page, count |-> count],
            links   |-> pagedLinks(page, pageSize, pageCount)]

\* ------------------------------------------------------------ the session
VARIABLES
  table,      \* the Test rows: a function from the ids in use to rows
  nextId,     \* the next value of the generated id column
  sort,       \* params.sort of the session's requests
  pageSize,   \* params.pageSize, as the @Paginate factory yields it
  query,      \* cursor / cursorDir of the last cursor request
  resp,       \* the last response
  via,        \* how the held page was asked for
  acc,        \* the results of the forward traversal so far, concatenated
  trav,       \* TRUE while a forward traversal from the first page runs
  stable,     \* ids in the table since the traversal began, never deleted
  issued,     \* skip / take of the last offset query sent to the data source
  mutations,  \* inserts and deletes so far
  request     \* the raw request behind resp, where the query variable lacks it

vars == <<table, nextId, sort, pageSize, query, resp, via, acc, trav, stable,
          issued, mutations, request>>

\* maxPageSize of the spec's @Paginate test; 0 is "not configured".
TestMaxPageSize == 10

MaxPageSizeConfigs == {0, TestMaxPageSize}

\* The column values TestFactory-made tables carry: one email for every row
\* ("uniform"), and two tables whose name / email repeat and do not follow
\* the id order.
DatasetKinds == {"uniform", "alt", "fall"}

DatasetRow(kind, i, n) ==
  CASE kind = "uniform" -> Row(i, 0, 0)
    [] kind = "alt"     -> Row(i, i % 2, 0)
    [] kind = "fall"    -> Row(i, (n - i) \div 4, i % 2)

Dataset(kind, n) == [i \in 1..n |-> DatasetRow(kind, i, n)]

\* params.sort as the @SortAndFilter factory yields it.
SortSpecs ==
  { <<>>,
    <<[key |-> "name", order |-> "ASC"]>>,
    <<[key |-> "name", order |-> "DESC"]>>,
    <<[key |-> "email", order |-> "ASC"], [key |-> "name", order |-> "DESC"]>>,
    <<[key |-> "id", order |-> "DESC"]>> }

NoQuery == [cursor |-> 0, cursorDir |-> "none"]

NoWindow == [skip |-> 0, take |-> 0]

NoRequest == [route |-> "none"]

InitWith(sizes, kinds, sorts, rawSizes) ==
  /\ \E n \in sizes, kind \in kinds : table = Dataset(kind, n) /\ nextId = n + 1
  /\ sort \in sorts
  /\ \E raw \in rawSizes, max \in MaxPageSizeConfigs : pageSize = Paginate(raw, max)
  /\ query = NoQuery
  /\ resp = [status |-> "none"]
  /\ via = "none"
  /\ acc = <<>>
  /\ trav = FALSE
  /\ stable = {}
  /\ issued = NoWindow
  /\ mutations = 0
  /\ request = NoRequest

\* Table sizes and page sizes lie around the paginator's literal page length
\* (HardPage) and at the small end.
TableSizes == (0..2) \cup ((HardPage - 1)..MaxRecords)

Init == InitWith(TableSizes, DatasetKinds, SortSpecs,
                 RawNumbers(HardPage - 1, MaxPageSize))

\* A cursor request: `how` names the way the client came to send it.
Fetch(q, how) ==
  /\ pageSize > 0
  /\ query' = q
  /\ resp' = CursorPaginate(table, sort, pageSize, q)
  /\ via' = how
  /\ UNCHANGED <<table, nextId, sort, pageSize, issued, mutations, request>>

\* A session opens with a request of the client's own making and goes on by
\* following the links of the page it holds.
Opening == via = "none"

\* GET /tests/cursor with no cursor, cursorDir absent or 'next'.
FetchFirst ==
  /\ Opening
  /\ \E rawDir \in {"none", "next"} : Fetch([cursor |-> 0, cursorDir |-> rawDir], "first")
  /\ trav' = (resp'.status = "ok")
  /\ acc' = IF resp'.status = "ok" THEN resp'.results ELSE <<>>
  /\ stable' = DOMAIN table

\* GET /tests/cursor?cursorDir=prev with no cursor.
FetchLast ==
  /\ Opening
  /\ Fetch([cursor |-> 0, cursorDir |-> "prev"], "last")
  /\ trav' = FALSE /\ acc' = <<>> /\ stable' = {}

\* GET /tests/cursor?cursor=c&cursorDir=d with a cursor the client made up.
FetchAt ==
  /\ Opening
  /\ \E c \in 1..(MaxRecords + 1), d \in {"next", "prev"} :
        Fetch([cursor |-> c, cursorDir |-> d], "cursor")
  /\ trav' = FALSE /\ acc' = <<>> /\ stable' = {}

HoldsCursorPage == resp.status = "ok" /\ via \in {"first", "last", "cursor", "next", "prev"}

LinkQuery(link) == [cursor |-> link.cursor, cursorDir |-> link.cursorDir]

\* The client follows links.next of the page it holds.
FollowNext ==
  /\ HoldsCursorPage
  /\ resp.links.next # Null
  /\ Fetch(LinkQuery(resp.links.next), "next")
  /\ trav' = (trav /\ resp'.status = "ok")
  /\ acc' = IF trav /\ resp'.status = "ok" THEN acc \o resp'.results ELSE <<>>
  /\ stable' = IF trav /\ resp'.status = "ok" THEN stable ELSE {}

\* The client follows links.prev of the page it holds.
FollowPrev ==
  /\ HoldsCursorPage
  /\ resp.links.prev # Null
  /\ Fetch(LinkQuery(resp.links.prev), "prev")
  /\ trav' = FALSE /\ acc' = <<>> /\ stable' = {}

\* GET /tests?page=rawPage: the offset paginator.
PagedRequest ==
  \E rawPage \in RawNumbers(2, MaxPage) :
    /\ Opening
    /\ resp' = PagedPaginate(table, sort, pageSize, rawPage)
    /\ issued' = pagedWindow(pagedPage(rawPage), pageSize)
    /\ via' = "paged"
    /\ query' = NoQuery
    /\ request' = [route |-> "/tests", page |-> rawPage]
    /\ trav' = FALSE /\ acc' = <<>> /\ stable' = {}
    /\ UNCHANGED <<table, nextId, sort, pageSize, mutations>>

Next == FetchFirst \/ FetchLast \/ FetchAt \/ FollowNext \/ FollowPrev \/ PagedRequest

Spec == Init /\ [][Next]_vars

\* ------------------------------------------------- concurrent mutation
\* Other clients change the table between the fetches of a traversal: while
\* the client holds a page with a next link it has not followed yet.
BetweenFetches ==
  /\ trav /\ resp.status = "ok" /\ resp.links.next # Null
  /\ mutations < MaxMutations

\* Another client saves a new Test row; the id column is generated.
Insert ==
  /\ BetweenFetches
  /\ nextId <= MaxRecords
  /\ \E name \in 0..MaxVal, email \in 0..1 :
        table' = [i \in DOMAIN table \cup {nextId} |->
                    IF i = nextId THEN Row(nextId, name, email) ELSE table[i]]
  /\ nextId' = nextId + 1
  /\ mutations' = mutations + 1
  /\ UNCHANGED <<sort, pageSize, query, resp, via, acc, trav, stable, issued,
                 request>>

\* Another client removes a Test row.
Delete ==
  /\ BetweenFetches
  /\ \E id \in DOMAIN table :
        /\ table' = [i \in DOMAIN table \ {id} |-> table[i]]
        /\ stable' = stable \ {id}
  /\ mutations' = mutations + 1
  /\ UNCHANGED <<nextId, sort, pageSize, query, resp, via, acc, trav, issued,
                 request>>

\* Tables that leave room for inserted rows.
DriftSizes == (HardPage - 1)..(MaxRecords - 1)

InitDrift == InitWith(DriftSizes, DatasetKinds, SortSpecs,
                      RawNumbers(HardPage, HardPage))

NextDrift == FetchFirst \/ FollowNext \/ Insert \/ Delete

SpecDrift == InitDrift /\ [][NextDrift]_vars

\* ------------------------------------------------- the offset paginator
\* GET /tests/repo?page=rawPage: paginate(repo, params, sortAndFilter(..)).
PagedRepoRequest ==
  \E rawPage \in RawNumbers(2, MaxPage) :
    /\ Opening
    /\ resp' = PagedPaginateRepo(table, sortAndFilterOptions(sort), pageSize, rawPage)
    /\ issued' = LET find == findOptions(pagedWindow(pagedPage(rawPage), pageSize),
                                         sortAndFilterOptions(sort))
                 IN  [skip |-> find.skip, take |-> find.take]
    /\ via' = "repo"
    /\ query' = NoQuery
    /\ request' = [route |-> "/tests/repo", page |-> rawPage]
    /\ trav' = FALSE /\ acc' = <<>> /\ stable' = {}
    /\ UNCHANGED <<table, nextId, sort, pageSize, mutations>>

\* Tables of every size up to MaxRecords, page sizes 1, 2 .. MaxPageSize.
InitPaged == InitWith(0..MaxRecords, {"alt"}, SortSpecs, RawNumbers(2, MaxPageSize))

NextPaged == PagedRequest \/ PagedRepoRequest

SpecPaged == InitPaged /\ [][NextPaged]_vars

\* ------------------------------------------------- the parameter factories
\* The strings of at most n characters (or tokens) over an alphabet.
Strings(alphabet, n) == UNION {[1..k -> alphabet] : k \in 0..n}

\* The sort parameters a client sends: column names a, b and 1, the '-'
\* prefix and the ',' separator, in every arrangement.
SortChars == {"a", "b", "1", "-", ","}

SortRaws == Strings(SortChars, MaxSortLen)

SortableConfigs ==
  { NotConfigured,
    AllowList(<<>>),
    AllowList(<< <<"a">> >>),
    AllowList(<< <<"a">>, <<"1">> >>),
    AllowList(<< <<"-", "a">> >>) }

\* The filter parameters a client sends: a first clause made of a key stem
\* (a, b and "__" in every arrangement), an operator suffix and a value part,
\* then nothing, an empty clause or a second clause.
StemTokens == {<<"a">>, <<"b">>, <<"_", "_">>}

KeyStems == {join(ts, <<>>) : ts \in Strings(StemTokens, MaxStemTokens)}

OpSuffixes ==
  { <<>>,
    <<"_", "_">>,
    <<"_", "_", "g", "t">>,
    <<"_", "_", "e", "q">>,
    <<"_", "_", "z", "z">>,
    <<"_", "_", "g", "t", "_", "_", "b">> }

ValueParts ==
  { <<>>,
    <<":">>,
    <<":", "v">>,
    <<":", "v", ":", "w">>,
    <<":", "v", "|", "w">> }

SecondClauses ==
  { <<>>,
    <<",">>,
    <<",", "a", ":", "w">>,
    <<",", "b", "_", "_", "l", "t", ":", "w">> }

FilterRaws ==
  {stem \o suffix \o value \o second :
     stem \in KeyStems, suffix \in OpSuffixes,
     value \in ValueParts, second \in SecondClauses}

FilterableConfigs == {NotConfigured, AllowList(<< <<"a">> >>)}

\* A request carries a sort parameter, a filter parameter, or neither.
SortAndFilterQueries ==
  {[sort |-> raw, filter |-> <<>>] : raw \in SortRaws}
    \cup {[sort |-> <<>>, filter |-> raw] : raw \in FilterRaws}

SortAndFilterConfigs ==
  {[sortable |-> names, filterable |-> NotConfigured] : names \in SortableConfigs}
    \cup {[sortable |-> NotConfigured, filterable |-> names] : names \in FilterableConfigs}

\* defaultPageSize of the @Paginate test; 0 is "not configured".
TestDefaultPageSize == 20

DefaultPageSizeConfigs == {0, TestDefaultPageSize}

\* The @Paginate factory is called with a config and a request.  The factory
\* reads config.paginator and config.maxPageSize and nothing else of config.
PaginateCall ==
  /\ Opening
  /\ \E raw \in RawNumbers(2, MaxPageSize),
        max \in MaxPageSizeConfigs, default \in DefaultPageSizeConfigs :
    /\ request' = [route  |-> "@Paginate",
                   config |-> [maxPageSize |-> max, defaultPageSize |-> default],
                   query  |-> [pageSize |-> raw]]
    /\ resp' = [status |-> "params", params |-> [pageSize |-> Paginate(raw, max)]]
    /\ via' = "Paginate"
    /\ UNCHANGED <<table, nextId, sort, pageSize, query, acc, trav, stable,
                   issued, mutations>>

\* The @SortAndFilter factory is called with a config and a request.
SortAndFilterCall ==
  /\ Opening
  /\ \E config \in SortAndFilterConfigs, q \in SortAndFilterQueries :
    /\ (q.sort = <<>> \/ config.filterable = NotConfigured)
    /\ (q.filter = <<>> \/ config.sortable = NotConfigured)
    /\ request' = [route |-> "@SortAndFilter", config |-> config, query |-> q]
    /\ resp' = [status |-> "params", params |-> SortAndFilter(config, q)]
    /\ via' = "SortAndFilter"
    /\ UNCHANGED <<table, nextId, sort, pageSize, query, acc, trav, stable,
                   issued, mutations>>

InitDecorators == InitWith({0}, {"uniform"}, {<<>>}, {<<>>})

NextDecorators == PaginateCall \/ SortAndFilterCall

SpecDecorators == InitDecorators /\ [][NextDecorators]_vars

\* ------------------------------------------------------ the link URLs
\* A value of req.query: a string, or the array of strings a repeated
\* parameter is parsed into.
Str(chars) == [array |-> FALSE, items |-> <<chars>>]

Arr(items) == [array |-> TRUE, items |-> items]

\* Marks a parameter the request does not carry.
Absent == [array |-> FALSE, items |-> <<>>]

\* v.toString(): a string is itself, an array its items joined by ','.
toString(v) == join(v.items, <<",">>)

\* req.query.k read as a string; <<>> when the request has no k.
Param(q, k) == IF k \in DOMAIN q THEN toString(q[k]) ELSE <<>>

\* url.searchParams.set(k, v).
searchParamsSet(url, k, v) ==
  [x \in DOMAIN url \cup {k} |-> IF x = k THEN v ELSE url[x]]

\* _addOriginalQueryParams(url, query) on a fresh URL, leaving out `skipped`.
addOriginalQueryParams(q, skipped) ==
  [k \in DOMAIN q \ skipped |-> toString(q[k])]

\* One link of PagedPaginator.links, as the search parameters of its URL.
pagedUrl(q, link) ==
  IF link = Null THEN Null
  ELSE searchParamsSet(
         searchParamsSet(addOriginalQueryParams(q, {}), "page", Render(link.page)),
         "pageSize", Render(link.pageSize))

DirChars(dir) == IF dir = "prev" THEN <<"p", "r", "e", "v">> ELSE <<"n", "e", "x", "t">>

\* CursorPaginator.linkFor, as the search parameters of its URL; the link's
\* cursor 0 is linkFor(null, dir).
cursorUrl(q, link) ==
  IF link = Null THEN Null
  ELSE LET res  == addOriginalQueryParams(q, {"cursor", "cursorDir"})
           res1 == IF link.cursor # 0
                     THEN searchParamsSet(res, "cursor", Render(link.cursor)) ELSE res
       IN  searchParamsSet(searchParamsSet(res1, "cursorDir", DirChars(link.cursorDir)),
                           "pageSize", Render(link.pageSize))

\* The links of an offset page as URLs.
pagedUrls(q, links) ==
  [first |-> pagedUrl(q, links.first), last |-> pagedUrl(q, links.last),
   next  |-> pagedUrl(q, links.next),  prev |-> pagedUrl(q, links.prev)]

\* The links of a cursor page as URLs.
cursorUrls(q, links) ==
  [first |-> cursorUrl(q, links.first), last |-> cursorUrl(q, links.last),
   next  |-> cursorUrl(q, links.next),  prev |-> cursorUrl(q, links.prev)]

\* The columns of Test a request can name, by their spelling.
NameChars == <<"n", "a", "m", "e">>

EmailChars == <<"e", "m", "a", "i", "l">>

ColumnName(chars) ==
  CASE chars = NameChars  -> "name"
    [] chars = EmailChars -> "email"
    [] chars = <<"i", "d">> -> "id"

\* params.sort with the columns the data source knows them by.
columnSort(parsed) ==
  [i \in 1..Len(parsed) |->
     [key |-> ColumnName(parsed[i].key), order |-> parsed[i].order]]

\* The decorators of TestController's routes.
ControllerMaxPageSize == 100

ControllerConfig ==
  [sortable   |-> AllowList(<<NameChars, EmailChars>>),
   filterable |-> AllowList(<<NameChars, <<"c", "r", "e", "a", "t", "e", "d", "A", "t">> >>)]

\* cursor / cursorDir of a request as the cursor paginator reads them.
cursorQuery(q) ==
  [cursor    |-> OrDefault(parseInt(Param(q, "cursor")), 0),
   cursorDir |-> IF Param(q, "cursorDir") = DirChars("prev") THEN "prev"
                 ELSE IF Param(q, "cursorDir") = DirChars("next") THEN "next"
                 ELSE "none"]

\* ------------------------------------------------- the routes, by URL
\* The requests a client sends: every parameter absent or present, `tag` a
\* parameter no decorator reads, once or repeated.
Chars(word) == CASE word = "x" -> <<"x">> [] word = "y" -> <<"y">>
                 [] word = "-name" -> <<"-">> \o NameChars
                 [] word = "email" -> EmailChars

OptionalValues(strings) == {Absent} \cup {Str(s) : s \in strings}

HttpQuery(choice) == [k \in {x \in DOMAIN choice : choice[x] # Absent} |-> choice[k]]

HttpQueries ==
  { HttpQuery([page |-> p, pageSize |-> ps, cursor |-> c, cursorDir |-> d,
               sort |-> s, tag |-> t]) :
      p  \in OptionalValues({Render(1), Render(2)}),
      ps \in OptionalValues({Render(2), Render(HardPage + 1)}),
      c  \in OptionalValues({Render(i) : i \in {1, 2, MaxRecords}}),
      d  \in OptionalValues({DirChars("prev")}),
      s  \in OptionalValues({Chars("-name")}),
      t  \in OptionalValues({Chars("x")}) \cup {Arr(<<Chars("x"), Chars("y")>>)} }

\* One request to a route of TestController: the decorators read the query,
\* the paginator answers, and its links are rendered as URLs.
HttpGet(route, q) ==
  LET params  == [pageSize |-> Paginate(Param(q, "pageSize"), ControllerMaxPageSize),
                  sort     |-> columnSort(SortAndFilter(ControllerConfig,
                                 [sort |-> Param(q, "sort"), filter |-> <<>>]).sort)]
      rawPage == Param(q, "page")
      page    == CASE route = "/tests" ->
                        PagedPaginate(table, params.sort, params.pageSize, rawPage)
                   [] route = "/tests/repo" ->
                        PagedPaginateRepo(table, sortAndFilterOptions(params.sort),
                                          params.pageSize, rawPage)
                   [] route = "/tests/cursor" ->
                        CursorPaginate(table, params.sort, params.pageSize, cursorQuery(q))
      urls    == IF route = "/tests/cursor" THEN cursorUrls(q, page.links)
                 ELSE pagedUrls(q, page.links)
  IN  /\ resp' = IF page.status = "ok" THEN [urls |-> urls] @@ page ELSE page
      /\ sort' = params.sort
      /\ pageSize' = params.pageSize
      /\ query' = IF route = "/tests/cursor" THEN cursorQuery(q) ELSE NoQuery
      /\ issued' = IF route = "/tests/cursor" THEN NoWindow
                   ELSE pagedWindow(pagedPage(rawPage), params.pageSize)
      /\ via' = "http"
      /\ request' = [route |-> route, query |-> q]
      /\ trav' = FALSE /\ acc' = <<>> /\ stable' = {}
      /\ UNCHANGED <<table, nextId, mutations>>

\* GET /tests
GetTests == Opening /\ \E q \in HttpQueries : HttpGet("/tests", q)

\* GET /tests/repo
GetTestsRepo == Opening /\ \E q \in HttpQueries : HttpGet("/tests/repo", q)

\* GET /tests/cursor
GetTestsCursor == Opening /\ \E q \in HttpQueries : HttpGet("/tests/cursor", q)

HttpTableSizes == {0, 1, 3, MaxRecords}

InitHttp == InitWith(HttpTableSizes, {"fall"}, {<<>>}, {<<>>})

NextHttp == GetTests \/ GetTestsRepo \/ GetTestsCursor

SpecHttp == InitHttp /\ [][NextHttp]_vars

\* ------------------------------------------- sortAndFilter: the builders
\* searchOpToOperator[value.op] || '='.
searchOpToOperator(op) ==
  CASE op = EQUALS    -> "="
    [] op = NOTEQUALS -> "!="
    [] op \in {CONTAINS, STARTSWITH, ENDSWITH} -> "LIKE"
    [] op = ICONTAINS -> "ILIKE"
    [] op = GT        -> ">"
    [] op = LT        -> "<"
    [] op = GTE       -> ">="
    [] op = LTE       -> "<="
    [] op = HAS       -> "@>"
    [] OTHER          -> "="

\* searchOpToTypeormOperator[value.op] || Equal.
searchOpToTypeormOperator(op) ==
  CASE op = EQUALS    -> "Equal"
    [] op = NOTEQUALS -> "NotEqual"
    [] op \in {CONTAINS, STARTSWITH, ENDSWITH} -> "Like"
    [] op = ICONTAINS -> "ILike"
    [] op = GT        -> "MoreThan"
    [] op = LT        -> "LessThan"
    [] op = GTE       -> "MoreThanOrEqual"
    [] op = LTE       -> "LessThanOrEqual"
    [] op = HAS       -> "In"
    [] OTHER          -> "Equal"

paramTransform(param, op) ==
  CASE op \in {CONTAINS, ICONTAINS} -> <<"%">> \o param \o <<"%">>
    [] op = STARTSWITH -> param \o <<"%">>
    [] op = ENDSWITH   -> <<"%">> \o param
    [] OTHER -> param

\* key.includes('.').
IsDotted(key) == indexOf(key, <<".">>) # 0

\* Mutant: the join alias is made of the relation alone, whatever the clause
\* and the attribute.
joinAliasOfRelation(kind, related, attr) == <<"leftJoinAnd", "_">> \o related

\* `leftJoinAnd${alias}_${related}_${attr}`; kind is 'Sort' or 'Filter'.
joinAlias(kind, related, attr) ==
  <<"leftJoinAnd", kind, "_">> \o related \o <<"_">> \o attr

\* buildSortAndFilterJoins(qb, dottedPath, alias): the join it registers and
\* the column it returns.  A path with one '.' only has the attribute
\* after it; the pieces after a second '.' are not read.
buildSortAndFilterJoins(qbAlias, dottedPath, kind) ==
  LET parts   == split(dottedPath, <<".">>)
      related == parts[1]
      attr    == parts[2]
      alias   == joinAlias(kind, related, attr)
  IN  [join |-> [property |-> qbAlias \o <<".">> \o related, alias |-> alias],
       key  |-> alias \o <<".">> \o attr]

\* repository.createQueryBuilder(alias).
createQueryBuilder(alias) ==
  [alias |-> alias, joins |-> <<>>, orderBys |-> <<>>, wheres |-> <<>>]

\* One turn of the sort loop of qb.sortAndFilter.
qbSortEntry(qb, entry) ==
  IF IsDotted(entry.key)
    THEN LET j == buildSortAndFilterJoins(qb.alias, entry.key, "Sort")
         IN  [qb EXCEPT !.joins = Append(@, j.join),
                        !.orderBys = addOrderBy(@, j.key, entry.order)]
    ELSE [qb EXCEPT !.orderBys =
                      addOrderBy(@, qb.alias \o <<".">> \o entry.key, entry.order)]

RECURSIVE qbSortEach(_, _)
qbSortEach(qb, entries) ==
  IF entries = <<>> THEN qb
  ELSE qbSortEach(qbSortEntry(qb, Head(entries)), Tail(entries))

\* The alternatives of one filter value.
alternatives(value) == split(value, <<"|">>)

\* Mutant: the alternatives of a value are not split apart.
filterBracketUnsplit(qbAlias, key, entry, counter) ==
  <<[column    |-> qbAlias \o <<".">> \o key,
     operator  |-> searchOpToOperator(entry.op),
     parameter |-> IF entry.op = HAS THEN Arr(<<entry.value>>)
                   ELSE Str(paramTransform(entry.value, entry.op)),
     name      |-> counter]>>

\* The Brackets of one filter entry: one orWhere per alternative, each with
\* its own parameter filterValue<counter>.
filterBracket(qbAlias, key, entry, counter) ==
  LET alts == alternatives(entry.value)
  IN  [n \in 1..Len(alts) |->
         [column    |-> qbAlias \o <<".">> \o key,
          operator  |-> searchOpToOperator(entry.op),
          parameter |-> IF entry.op = HAS THEN Arr(<<alts[n]>>)
                        ELSE Str(paramTransform(alts[n], entry.op)),
          name      |-> counter + n - 1]]

\* One turn of the filter loop of qb.sortAndFilter.
qbFilterEntry(qb, entry, counter) ==
  IF IsDotted(entry.key)
    THEN LET j == buildSortAndFilterJoins(qb.alias, entry.key, "Filter")
         IN  [qb EXCEPT !.joins = Append(@, j.join),
                        !.wheres = Append(@, filterBracket(qb.alias, j.key, entry, counter))]
    ELSE [qb EXCEPT !.wheres = Append(@, filterBracket(qb.alias, entry.key, entry, counter))]

RECURSIVE qbFilterEach(_, _, _)
qbFilterEach(qb, filter, counter) ==
  IF filter = <<>> THEN qb
  ELSE qbFilterEach(qbFilterEntry(qb, Head(filter), counter), Tail(filter),
                    counter + Len(alternatives(Head(filter).value)))

\* SelectQueryBuilder.prototype.sortAndFilter.
qbSortAndFilter(qb, params) ==
  qbFilterEach(qbSortEach(qb, params.sort), params.filter, 0)

\* Mutant: a value with '|' is bound whole instead of being refused.
repoWhereNoRefusal(filter) ==
  [status |-> "ok",
   where  |-> [i \in 1..Len(filter) |->
                 [key |-> filter[i].key,
                  condition |->
                    IF filter[i].op = HAS
                      THEN [type |-> "literal", value |-> Arr(<<filter[i].value>>)]
                      ELSE [type  |-> searchOpToTypeormOperator(filter[i].op),
                            value |-> Str(paramTransform(filter[i].value, filter[i].op))]]]]

\* The filter loop of the repository helper: options.where, or the Error
\* thrown at the first value that holds a '|'.
repoWhere(filter) ==
  IF \E i \in 1..Len(filter) : indexOf(filter[i].value, <<"|">>) # 0
    THEN [status |-> "error", error |-> "Error"]
    ELSE [status |-> "ok",
          where  |-> [i \in 1..Len(filter) |->
                        [key |-> filter[i].key,
                         condition |->
                           IF filter[i].op = HAS
                             THEN [type |-> "literal", value |-> Arr(<<filter[i].value>>)]
                             ELSE [type  |-> searchOpToTypeormOperator(filter[i].op),
                                   value |-> Str(paramTransform(filter[i].value,
                                                                filter[i].op))]]]]

\* sortAndFilter(params), the repository helper: the FindManyOptions it
\* returns, unless it throws.
sortAndFilter(params) ==
  LET w == repoWhere(params.filter)
  IN  IF w.status = "error" THEN w
      ELSE [status  |-> "ok",
            options |-> [where |-> w.where] @@ sortAndFilterOptions(params.sort)]

\* ------------------------------------------------ the data source's tests
\* The characters of column values and parameters, in the order the data
\* source compares them.
CharOrder == <<"%", "A", "B", "_", "a", "b", "|">>

CharRank(c) == CHOOSE i \in 1..Len(CharOrder) : CharOrder[i] = c

\* s < t for texts.
RECURSIVE TextLess(_, _)
TextLess(s, t) ==
  IF t = <<>> THEN FALSE
  ELSE IF s = <<>> THEN TRUE
  ELSE IF Head(s) = Head(t) THEN TextLess(Tail(s), Tail(t))
  ELSE CharRank(Head(s)) < CharRank(Head(t))

\* s LIKE pattern: '%' stands for any text, '_' for any one character.
RECURSIVE Like(_, _)
Like(s, pattern) ==
  IF pattern = <<>> THEN s = <<>>
  ELSE IF Head(pattern) = "%"
    THEN Like(s, Tail(pattern)) \/ (s # <<>> /\ Like(Tail(s), pattern))
  ELSE /\ s # <<>>
       /\ (Head(pattern) = "_" \/ Head(pattern) = Head(s))
       /\ Like(Tail(s), Tail(pattern))

Lower(s) ==
  [i \in 1..Len(s) |-> CASE s[i] = "A" -> "a" [] s[i] = "B" -> "b" [] OTHER -> s[i]]

\* `column operator :parameter` on a column value: a text, or the array of a
\* multi-valued column for '@>'.
SqlHolds(value, operator, parameter) ==
  LET p == parameter.items[1]
  IN  CASE operator = "="     -> value = p
        [] operator = "!="    -> value # p
        [] operator = "LIKE"  -> Like(value, p)
        [] operator = "ILIKE" -> Like(Lower(value), Lower(p))
        [] operator = ">"     -> TextLess(p, value)
        [] operator = "<"     -> TextLess(value, p)
        [] operator = ">="    -> ~TextLess(value, p)
        [] operator = "<="    -> ~TextLess(p, value)
        [] operator = "@>"    ->
             \A i \in 1..Len(parameter.items) : includes(value, parameter.items[i])

\* A where value of FindManyOptions on a column value.  A plain value that
\* is not a FindOperator is compared for equality.
FindHolds(value, condition) ==
  CASE condition.type = "literal"  ->
         value = (IF condition.value.array THEN condition.value.items
                  ELSE condition.value.items[1])
    [] condition.type = "Equal"    -> SqlHolds(value, "=", condition.value)
    [] condition.type = "NotEqual" -> SqlHolds(value, "!=", condition.value)
    [] condition.type = "Like"     -> SqlHolds(value, "LIKE", condition.value)
    [] condition.type = "ILike"    -> SqlHolds(value, "ILIKE", condition.value)
    [] condition.type = "MoreThan" -> SqlHolds(value, ">", condition.value)
    [] condition.type = "LessThan" -> SqlHolds(value, "<", condition.value)
    [] condition.type = "MoreThanOrEqual" -> SqlHolds(value, ">=", condition.value)
    [] condition.type = "LessThanOrEqual" -> SqlHolds(value, "<=", condition.value)

TagsChars == <<"t", "a", "g", "s">>

\* The column of a row that a key of the entity names.
columnValue(row, key) ==
  CASE key = NameChars  -> row.name
    [] key = EmailChars -> row.email
    [] key = TagsChars  -> row.tags

\* The rows of S the query builder's where clause selects: every Brackets
\* holds, by one of its alternatives.
qbSelected(S, qb) ==
  {row \in S :
     \A i \in 1..Len(qb.wheres) :
        \E n \in 1..Len(qb.wheres[i]) :
           LET cond == qb.wheres[i][n]
           IN  SqlHolds(columnValue(row, SubSeq(cond.column, Len(qb.alias) + 2,
                                                Len(cond.column))),
                        cond.operator, cond.parameter)}

\* The rows of S that repository.find(options) selects.
findSelected(S, options) ==
  {row \in S :
     \A i \in 1..Len(options.where) :
        FindHolds(columnValue(row, options.where[i].key), options.where[i].condition)}

\* ------------------------------------------------- the builders, called
\* A table whose columns hold texts, with a multi-valued column tags.
TextRow(id, name, email, tags) ==
  [id |-> id, name |-> name, email |-> email, tags |-> tags]

TextRows ==
  << TextRow(1, <<"a">>, <<"b">>, << <<"a">> >>),
     TextRow(2, <<"a", "b">>, <<"a">>, << <<"a">>, <<"b">> >>),
     TextRow(3, <<"b", "a">>, <<"a", "b">>, <<>>),
     TextRow(4, <<"A">>, <<"b">>, << <<"b">> >>) >>

TextTable(n) == [i \in 1..n |-> TextRows[i]]

RelatedChars == <<"r", "e", "l", "a", "t", "e", "d">>

RelatedName == RelatedChars \o <<".">> \o NameChars

RelatedEmail == RelatedChars \o <<".">> \o EmailChars

FilterEntry(key, op, value) == [key |-> key, op |-> op, value |-> value]

\* The filter entries a parsed request holds: every operator but has on the
\* text column name, has on tags, and entries on email and on the relation.
FilterEntries ==
  { FilterEntry(NameChars, op, value) :
      op \in SearchOps \ {HAS},
      value \in {<<"a">>, <<"A">>, <<"a", "|", "b">>, <<"b", "|", "a", "|", "B">>} }
    \cup { FilterEntry(EmailChars, op, value) :
             op \in {EQUALS, ENDSWITH}, value \in {<<"b">>, <<"a", "|", "b">>} }
    \cup { FilterEntry(TagsChars, HAS, value) :
             value \in {<<"a">>, <<"a", "|", "b">>} }
    \cup { FilterEntry(key, EQUALS, <<"a">>) : key \in {RelatedName, RelatedEmail} }

\* params.filter: no entry, one, or two on different keys.
Filters ==
  {<<>>} \cup {<<e>> : e \in FilterEntries}
    \cup {pair \in FilterEntries \X FilterEntries : pair[1].key # pair[2].key}

SortEntryOf(key, order) == [key |-> key, order |-> order]

\* params.sort.
Sorts ==
  { <<>>,
    <<SortEntryOf(NameChars, "DESC")>>,
    <<SortEntryOf(RelatedName, "ASC")>>,
    <<SortEntryOf(RelatedName, "DESC"), SortEntryOf(RelatedEmail, "ASC")>> }

TestAlias == <<"t", "e", "s", "t">>

\* repository.createQueryBuilder('test').sortAndFilter(params)
QbSortAndFilterCall ==
  /\ Opening
  /\ \E s \in Sorts, f \in Filters :
       /\ request' = [route |-> "qb.sortAndFilter", params |-> [sort |-> s, filter |-> f]]
       /\ resp' = [status |-> "query",
                   qb |-> qbSortAndFilter(createQueryBuilder(TestAlias),
                                          [sort |-> s, filter |-> f])]
  /\ via' = "qb"
  /\ UNCHANGED <<table, nextId, sort, pageSize, query, acc, trav, stable,
                 issued, mutations>>

\* sortAndFilter(params), for repository.find
RepoSortAndFilterCall ==
  /\ Opening
  /\ \E s \in Sorts, f \in Filters :
       /\ request' = [route |-> "sortAndFilter", params |-> [sort |-> s, filter |-> f]]
       /\ resp' = sortAndFilter([sort |-> s, filter |-> f])
  /\ via' = "options"
  /\ UNCHANGED <<table, nextId, sort, pageSize, query, acc, trav, stable,
                 issued, mutations>>

InitBuilders ==
  /\ \E n \in {0, 2, Len(TextRows)} : table = TextTable(n) /\ nextId = n + 1
  /\ sort = <<>>
  /\ pageSize = DefaultPageSize
  /\ query = NoQuery
  /\ resp = [status |-> "none"]
  /\ via = "none"
  /\ acc = <<>>
  /\ trav = FALSE
  /\ stable = {}
  /\ issued = NoWindow
  /\ mutations = 0
  /\ request = NoRequest

NextBuilders == QbSortAndFilterCall \/ RepoSortAndFilterCall

SpecBuilders == InitBuilders /\ [][NextBuilders]_vars

\* ------------------------------------------------- paginate with options
\* The FindManyOptions a caller passes as the third argument of paginate:
\* none, an order, or a window of its own.
CallerOptions ==
  { [k \in {} |-> 0],
    [k \in {"order"} |-> <<[key |-> "name", order |-> "DESC"]>>],
    [k \in {"take"} |-> 1],
    [k \in {"skip"} |-> 1],
    [k \in {"skip", "take"} |-> IF k = "skip" THEN 0 ELSE MaxRecords] }

\* paginate(repo, params, options)
PaginateRepoCall ==
  /\ Opening
  /\ \E rawPage \in RawNumbers(2, MaxPage), options \in CallerOptions :
       /\ resp' = PagedPaginateRepo(table, options, pageSize, rawPage)
       /\ issued' = LET find == findOptions(pagedWindow(pagedPage(rawPage), pageSize),
                                            options)
                    IN  [skip |-> find.skip, take |-> find.take]
       /\ request' = [route |-> "paginate", page |-> rawPage, options |-> options]
  /\ via' = "paginate"
  /\ query' = NoQuery
  /\ trav' = FALSE /\ acc' = <<>> /\ stable' = {}
  /\ UNCHANGED <<table, nextId, sort, pageSize, mutations>>

InitOptions == InitWith(0..MaxRecords, {"alt"}, {<<>>}, RawNumbers(2, MaxPageSize))

NextOptions == PaginateRepoCall

SpecOptions == InitOptions /\ [][NextOptions]_vars

\* ------------------------------------------------- a failing data source
\* The rejection of a data-source call.
DataSourceError == [status |-> "error", error |-> "DataSourceError"]

\* The data-source calls PagedPaginator.paginate awaits.
pagedCalls == <<"getManyAndCount">>

\* The data-source calls CursorPaginator.paginate awaits, in order, up to its
\* return or to the TypeError it throws on a probe that found nothing.
cursorCalls(tbl, sort_, query_) ==
  LET qbOrder     == effectiveOrder(sort_)
      firstRecord == getOne(Rows(tbl), qbOrder)
      probeLast   == query_.cursor = 0 /\ cursorDir(query_) = "prev"
      cursor      == IF query_.cursor # 0 THEN query_.cursor
                     ELSE IF firstRecord = Null THEN 0
                     ELSE firstRecord.id
      lookup      == Len(qbOrder) # 1
      found       == cursor \in DOMAIN tbl
  IN  <<"getOne">>
        \o (IF query_.cursor = 0 /\ firstRecord = Null THEN <<>>
            ELSE (IF probeLast THEN <<"getOne">> ELSE <<>>)
                   \o (IF lookup THEN <<"getOne">> ELSE <<>>)
                   \o (IF lookup /\ ~found /\ query_.cursor # 0 THEN <<>>
                       ELSE <<"getMany">>))

\* Mutant: a rejected call is made once more, and the paginator goes on.
awaitedWithRetry(calls, failAt, answer) ==
  IF failAt \in 1..Len(calls)
    THEN [calls |-> SubSeq(calls, 1, failAt) \o SubSeq(calls, failAt, Len(calls))] @@ answer
    ELSE [calls |-> calls] @@ answer

\* Every call is awaited outside any try / catch: when call number failAt
\* rejects, paginate rejects with that error and calls nothing after it;
\* failAt = 0 is a run in which no call rejects.
awaited(calls, failAt, answer) ==
  IF failAt \in 1..Len(calls)
    THEN [calls |-> SubSeq(calls, 1, failAt)] @@ DataSourceError
    ELSE [calls |-> calls] @@ answer

\* GET /tests?page=rawPage while the data source may reject a call.
PagedRequestFailing ==
  /\ Opening
  /\ \E rawPage \in RawNumbers(2, MaxPage), failAt \in 0..1 :
       /\ resp' = awaited(pagedCalls, failAt,
                          PagedPaginate(table, sort, pageSize, rawPage))
       /\ request' = [route |-> "/tests", page |-> rawPage, failAt |-> failAt]
       /\ issued' = pagedWindow(pagedPage(rawPage), pageSize)
  /\ via' = "failing"
  /\ query' = NoQuery
  /\ trav' = FALSE /\ acc' = <<>> /\ stable' = {}
  /\ UNCHANGED <<table, nextId, sort, pageSize, mutations>>

\* GET /tests/cursor while the data source may reject a call.
CursorRequestFailing ==
  /\ Opening
  /\ pageSize > 0
  /\ \E c \in 0..3, d \in {"next", "prev"}, failAt \in 0..4 :
       LET q == [cursor |-> c, cursorDir |-> d]
       IN  /\ query' = q
           /\ resp' = awaited(cursorCalls(table, sort, q), failAt,
                              CursorPaginate(table, sort, pageSize, q))
           /\ request' = [route |-> "/tests/cursor", failAt |-> failAt]
  /\ via' = "failing"
  /\ trav' = FALSE /\ acc' = <<>> /\ stable' = {}
  /\ UNCHANGED <<table, nextId, sort, pageSize, issued, mutations>>

InitFailure == InitWith({0, 2, HardPage + 1}, {"fall"}, SortSpecs, {<<>>})

NextFailure == PagedRequestFailing \/ CursorRequestFailing

SpecFailure == InitFailure /\ [][NextFailure]_vars

\* ------------------------------------------------------------ the claims
Order == effectiveOrder(sort)

\* The complete record sequence in the effective ordering.
AllOrdered == OrderedRows(Rows(table), Order)

Results == resp.results

ResultIds == {Results[i].id : i \in 1..Len(Results)}

IdsOf(seq) == {seq[i].id : i \in 1..Len(seq)}

Forward == cursorDir(query) = "next"

Backward == cursorDir(query) = "prev"

\* The response to following `link` on the table as it is now.
Follow(link) == CursorPaginate(table, sort, pageSize, LinkQuery(link))

\* C1: a forward traversal from no cursor that has reached a page without a
\* next link has returned the complete record sequence in the effective
\* ordering, every record exactly once.
C1_TraversalComplete ==
  (trav /\ resp.status = "ok" /\ resp.links.next = Null) => acc = AllOrdered

\* C2: a page of the cursor paginator holds at most pageSize records.
C2_AtMostPageSize ==
  HoldsCursorPage => Len(Results) <= pageSize

\* C3: for a page P with a next link, following next and then the prev link
\* of the page so reached returns the record set of P.
C3_RoundTrip ==
  (HoldsCursorPage /\ resp.links.next # Null) =>
     LET q == Follow(resp.links.next)
     IN  (q.status = "ok" /\ q.links.prev # Null) =>
            LET b == Follow(q.links.prev)
            IN  b.status = "ok" /\ IdsOf(b.results) = ResultIds

\* C3 as amended: the same for every page P but the last page obtained by a
\* backward fetch with no cursor.
C3_RoundTripFromCursor ==
  (HoldsCursorPage /\ resp.links.next # Null /\ ~(Backward /\ query.cursor = 0)) =>
     LET q == Follow(resp.links.next)
     IN  (q.status = "ok" /\ q.links.prev # Null) =>
            LET b == Follow(q.links.prev)
            IN  b.status = "ok" /\ IdsOf(b.results) = ResultIds

\* C3 witness: a first page with a next link whose successor has a prev link.
C3_Witness ==
  /\ HoldsCursorPage /\ via = "first" /\ resp.links.next # Null
  /\ Follow(resp.links.next).status = "ok"
  /\ Follow(resp.links.next).links.prev # Null
  /\ Len(Results) > 1

\* C4: a fetch with an explicit cursor never returns the cursor's record, in
\* either direction; a fetch with no cursor includes the first record
\* (direction next) or the last record (direction prev) of the ordering.
C4_CursorExcluded ==
  HoldsCursorPage =>
    /\ (query.cursor # 0) => query.cursor \notin ResultIds
    /\ (query.cursor = 0 /\ Forward) =>
          (Results # <<>> /\ Results[1] = AllOrdered[1])
    /\ (query.cursor = 0 /\ Backward) =>
          (Results # <<>> /\ Results[Len(Results)] = AllOrdered[Len(AllOrdered)])

\* C4 as amended: a backward fetch with an explicit cursor never returns the
\* cursor's record; a forward fetch with an explicit cursor returns the
\* cursor's record as its first result; a fetch with no cursor includes the
\* first (next) or the last (prev) record of the ordering.
C4_CursorInclusiveForward ==
  HoldsCursorPage =>
    /\ (query.cursor # 0 /\ Backward) => query.cursor \notin ResultIds
    /\ (query.cursor # 0 /\ Forward /\ query.cursor \in DOMAIN table) =>
          (Results # <<>> /\ Results[1].id = query.cursor)
    /\ (query.cursor = 0 /\ Forward) =>
          (Results # <<>> /\ Results[1] = AllOrdered[1])
    /\ (query.cursor = 0 /\ Backward) =>
          (Results # <<>> /\ Results[Len(Results)] = AllOrdered[Len(AllOrdered)])

\* C4 witness: a forward page asked for with the cursor of a record that is
\* not the first of the ordering.
C4_Witness ==
  /\ HoldsCursorPage /\ Forward /\ query.cursor \in DOMAIN table
  /\ query.cursor # AllOrdered[1].id
  /\ Len(Results) > 1

\* C5: a cursor that resolves to no record yields an empty page with neither
\* a next nor a prev link, and no error.
C5_StaleCursorEmpty ==
  (via = "cursor" /\ query.cursor \notin DOMAIN table) =>
     /\ resp.status = "ok"
     /\ Results = <<>>
     /\ resp.links.next = Null
     /\ resp.links.prev = Null

\* C6: no offset query reaches the data source with a non-positive page size
\* or a negative skip.
C6_WindowValidated ==
  (via = "paged") => (issued.take > 0 /\ issued.skip >= 0)

\* C7: on a forward fetch links.next is non-null exactly when a record
\* follows the returned page; links.prev is null when no cursor was supplied
\* and non-null when the page was reached through a next link.
C7_ForwardLinks ==
  (HoldsCursorPage /\ Forward) =>
    /\ (resp.links.next # Null) <=>
          (Results # <<>> /\ \E r \in Rows(table) : Before(Results[Len(Results)], r, Order))
    /\ (query.cursor = 0) => resp.links.prev = Null
    /\ (via = "next") => resp.links.prev # Null

\* The up to n rows just before position k of the ordering.
Preceding(k, n) == SubSeq(AllOrdered, IF k - n > 1 THEN k - n ELSE 1, k - 1)

PosOf(row) == CHOOSE k \in 1..Len(AllOrdered) : AllOrdered[k] = row

\* C8: a backward fetch with no cursor returns the last pageSize records;
\* links.prev is non-null exactly when a record precedes the page, links.next
\* is non-null, and following links.prev returns the records just before the
\* page (with prev null when fewer than pageSize were left).
C8_BackwardLinks ==
  (HoldsCursorPage /\ Backward) =>
    /\ (query.cursor = 0) =>
          Results = Preceding(Len(AllOrdered) + 1, pageSize)
    /\ (resp.links.prev # Null) <=>
          (Results # <<>> /\ \E r \in Rows(table) : Before(r, Results[1], Order))
    /\ resp.links.next # Null
    /\ (resp.links.prev # Null) =>
          LET b == Follow(resp.links.prev)
              k == PosOf(Results[1])
          IN  /\ b.status = "ok"
              /\ b.results = Preceding(k, pageSize)
              /\ (k - 1 < pageSize) => b.links.prev = Null

\* C9: the results of a cursor page are in the forward effective ordering,
\* whichever the direction of the fetch.
C9_ForwardCanonical ==
  HoldsCursorPage =>
    \A i \in 1..(Len(Results) - 1) : Before(Results[i], Results[i + 1], Order)

\* C9 witness: a backward page of several records under a two-column sort.
C9_Witness ==
  /\ HoldsCursorPage /\ Backward /\ Len(Results) > 2 /\ Len(sort) > 1
  /\ \E i \in 1..(Len(Results) - 1) : Results[i].id > Results[i + 1].id

\* The pages the traversal returned before the page held now.
AccBefore == SubSeq(acc, 1, Len(acc) - Len(Results))

\* C10: when rows other than the cursor's are inserted or deleted between two
\* successive forward fetches, the second fetch returns no record an earlier
\* page returned, and leaves out no record that was in the table throughout
\* and sorts from the cursor's record up to the end of the returned window
\* (to the end of the table when the page has no next link).
C10_NoDrift ==
  (trav /\ via = "next" /\ resp.status = "ok" /\ query.cursor \in stable) =>
     /\ IdsOf(AccBefore) \cap ResultIds = {}
     /\ \A s \in stable :
          ( /\ ~Before(table[s], table[query.cursor], Order)
            /\ \/ resp.links.next = Null
               \/ (Results # <<>> /\ ~Before(Results[Len(Results)], table[s], Order)) )
          => s \in ResultIds

\* C10 witness: a second page fetched after a row was inserted that the page
\* returns and an already returned row was deleted.
C10_Witness ==
  /\ trav /\ via = "next" /\ resp.status = "ok" /\ query.cursor \in stable
  /\ \E i \in 1..Len(Results) : Results[i].id \notin stable
  /\ \E i \in 1..Len(AccBefore) : AccBefore[i].id \notin DOMAIN table
  /\ Len(sort) > 0

\* ------------------------------------------- claims: the offset paginator
\* A page of the offset paginator is held, from either entry point.
HoldsPagedPage == via \in {"paged", "repo"} /\ resp.status = "ok"

Count == Cardinality(DOMAIN table)

\* ceil(c / n) for n > 0: the least number of pages of n that hold c records.
Ceil(c, n) == CHOOSE k \in 0..c : k * n >= c /\ (k - 1) * n < c

\* C11: for pageSize > 0 and a table of C records, paginate and paginateRepo
\* report meta.pageCount = ceil(C / pageSize) when C > 0, and 0 when C = 0.
C11_PageCountIsCeil ==
  (HoldsPagedPage /\ pageSize > 0) =>
     resp.meta.pageCount = (IF Count > 0 THEN Ceil(Count, pageSize) ELSE 0)

\* C11 witness: paginateRepo over a table whose count is a multiple of the
\* page size, and more than one page.
C11_Witness ==
  /\ HoldsPagedPage /\ via = "repo" /\ pageSize > 1
  /\ Count = 2 * pageSize
  /\ resp.meta.pageCount = 2

MaxOf(a, b) == IF a > b THEN a ELSE b

\* C12: links.first targets page 1, links.last page max(pageCount, 1),
\* links.prev page - 1 when page > 1 and is null otherwise, links.next
\* page + 1 when page < pageCount and is null otherwise.
C12_PagedLinks ==
  HoldsPagedPage =>
     LET page == resp.meta.page
         pageCount == resp.meta.pageCount
     IN  /\ resp.links.first.page = 1
         /\ resp.links.last.page = MaxOf(pageCount, 1)
         /\ IF page > 1 THEN resp.links.prev # Null /\ resp.links.prev.page = page - 1
                        ELSE resp.links.prev = Null
         /\ IF page < pageCount
               THEN resp.links.next # Null /\ resp.links.next.page = page + 1
               ELSE resp.links.next = Null

\* C12 witness: the empty table (first and last both target page 1, no prev,
\* no next) asked for through the query builder.
C12_Witness ==
  /\ HoldsPagedPage /\ via = "paged" /\ Count = 0
  /\ resp.meta.pageCount = 0 /\ resp.links.last.page = 1

\* The page a request asks for, when its page parameter is the decimal
\* rendering of a positive number; 0 otherwise.
RequestedPage ==
  IF \E n \in 1..(MaxPage + 1) : request.page = Render(n)
    THEN CHOOSE n \in 1..(MaxPage + 1) : request.page = Render(n)
    ELSE 0

MinOf(a, b) == IF a < b THEN a ELSE b

\* C13: the offset paginator asks the data source for skip = (page - 1) *
\* pageSize and take = pageSize, and reports meta = {pageCount, pageSize,
\* page, count} with the requested page and pageSize and the table's total
\* count; the results are the records of that window (9 records, page 2,
\* pageSize 2: 2 results, meta {5, 2, 2, 9}).
C13_WindowAndMeta ==
  (HoldsPagedPage /\ RequestedPage > 0) =>
     /\ issued = [skip |-> (RequestedPage - 1) * pageSize, take |-> pageSize]
     /\ resp.meta.page = RequestedPage
     /\ resp.meta.pageSize = pageSize
     /\ resp.meta.count = Count
     /\ Len(Results) = MinOf(pageSize, MaxOf(Count - (RequestedPage - 1) * pageSize, 0))
     /\ (Count = 9 /\ RequestedPage = 2 /\ pageSize = 2) =>
           (Len(Results) = 2 /\ resp.meta = [pageCount |-> 5, pageSize |-> 2,
                                             page |-> 2, count |-> 9])

\* C13 witness: the scenario of the test, 9 records and page=2&pageSize=2.
C13_Witness ==
  /\ HoldsPagedPage /\ Count = 9 /\ RequestedPage = 2 /\ pageSize = 2
  /\ Len(Results) = 2

\* ------------------------------------------ claims: the parameter factories
PaginateCalled == via = "Paginate"

\* The pageSize parameter of the request, when it is the decimal rendering of
\* a positive number; 0 otherwise.
GivenPageSize ==
  IF \E n \in 1..(MaxPageSize + 1) : request.query.pageSize = Render(n)
    THEN CHOOSE n \in 1..(MaxPageSize + 1) : request.query.pageSize = Render(n)
    ELSE 0

\* C16: the @Paginate factory yields the pageSize query parameter when one is
\* given, otherwise the configured defaultPageSize (10 when none is
\* configured), and never more than a configured maxPageSize.
C16_PageSizeFactory ==
  PaginateCalled =>
    LET max      == request.config.maxPageSize
        default  == IF request.config.defaultPageSize # 0
                      THEN request.config.defaultPageSize ELSE DefaultPageSize
        fits(n)  == max = 0 \/ n <= max
        yielded  == resp.params.pageSize
    IN  /\ (GivenPageSize > 0 /\ fits(GivenPageSize)) => yielded = GivenPageSize
        /\ (request.query.pageSize = <<>> /\ fits(default)) => yielded = default
        /\ (max # 0) => yielded <= max

SortAndFilterCalled == via = "SortAndFilter"

SortParsed == resp.params.sort

FilterParsed == resp.params.filter

\* The entries of the sort parameter, as listed.
SortEntries == split(request.query.sort, <<",">>)

Signed(entry) == entry # <<>> /\ Head(entry) = "-"

Unsigned(entry) == IF Signed(entry) THEN Tail(entry) ELSE entry

DirectionOf(entry) == IF Signed(entry) THEN "DESC" ELSE "ASC"

NonEmptyEntries == {i \in 1..Len(SortEntries) : SortEntries[i] # <<>>}

EntriesOf(f, entries) == {i \in 1..Len(entries) : Unsigned(entries[i]) = f}

FirstOf(S) == CHOOSE i \in S : \A j \in S : i <= j

LastOf(S) == CHOOSE i \in S : \A j \in S : i >= j

\* The spec S holds exactly the fields of the entries at positions kept, each
\* once, with the direction of the field's last kept entry.
HoldsFieldsOf(S, entries, kept) ==
  /\ {S[j].key : j \in 1..Len(S)} = {Unsigned(entries[i]) : i \in kept}
  /\ \A j, k \in 1..Len(S) : (j # k) => (S[j].key # S[k].key)
  /\ \A j \in 1..Len(S) :
        S[j].order = DirectionOf(entries[LastOf(EntriesOf(S[j].key, entries) \cap kept)])

\* The fields of S stand in the order of their first kept entries, but for
\* fields named by an array index, which come first in numeric order.
InListedOrder(S, entries, kept) ==
  \A j, k \in 1..Len(S) :
    (j < k) =>
      IF IsArrayIndex(S[j].key) /\ IsArrayIndex(S[k].key)
        THEN DigitPrefix(S[j].key, 0) < DigitPrefix(S[k].key, 0)
      ELSE IF IsArrayIndex(S[k].key) THEN FALSE
      ELSE IF IsArrayIndex(S[j].key) THEN TRUE
      ELSE FirstOf(EntriesOf(S[j].key, entries) \cap kept)
             < FirstOf(EntriesOf(S[k].key, entries) \cap kept)

SortableNames == request.config.sortable.names

\* C18: with a sortable allow-list, the parsed sort spec holds a field only
\* if the field's unsigned name is in the allow-list, and holds the fields of
\* all the entries whose unsigned name is in it: the others are left out and
\* change nothing else.
C18_SortAllowList ==
  (SortAndFilterCalled /\ request.config.sortable.configured) =>
    /\ \A j \in 1..Len(SortParsed) : includes(SortableNames, SortParsed[j].key)
    /\ HoldsFieldsOf(SortParsed, SortEntries,
                     {i \in 1..Len(SortEntries) :
                        includes(SortableNames, Unsigned(SortEntries[i]))})

\* The entries that are in the allow-list as written, or are signed and in
\* it without their '-'.
ListedEntries ==
  {i \in 1..Len(SortEntries) :
     \/ includes(SortableNames, SortEntries[i])
     \/ (Signed(SortEntries[i]) /\ includes(SortableNames, Tail(SortEntries[i])))}

\* C18 as amended: with a sortable allow-list, the parsed sort spec holds
\* exactly the fields of the entries that are members of the allow-list as
\* written or are '-'-prefixed with their unsigned name a member; the other
\* entries are left out and change nothing else.
C18_SortAllowListAsWritten ==
  (SortAndFilterCalled /\ request.config.sortable.configured) =>
    HoldsFieldsOf(SortParsed, SortEntries, ListedEntries)

\* C18 witness: an allow-list of plain names, a parameter with a signed entry
\* that is kept and another entry that is left out.
C18_Witness ==
  /\ SortAndFilterCalled /\ request.config.sortable.configured
  /\ \A i \in 1..Len(SortableNames) : ~Signed(SortableNames[i])
  /\ Len(SortParsed) = 1 /\ SortParsed[1].order = "DESC"
  /\ \E i \in 1..Len(SortEntries) :
        SortEntries[i] # <<>> /\ ~includes(SortableNames, Unsigned(SortEntries[i]))

\* The clauses of the filter parameter, as listed.
FilterClauses == split(request.query.filter, <<",">>)

Colon(clause) == indexOf(clause, <<":">>)

\* Key and value of a clause: the text before and after its first ':'.
ClauseKey(clause) ==
  IF Colon(clause) = 0 THEN clause ELSE SubSeq(clause, 1, Colon(clause) - 1)

ClauseValue(clause) ==
  IF Colon(clause) = 0 THEN <<>> ELSE SubSeq(clause, Colon(clause) + 1, Len(clause))

Separator == <<"_", "_">>

HasSeparator(key) == indexOf(key, Separator) # 0

\* The text of a key before its first "__" and the text between its first
\* and its second "__" (to the end of the key when there is no second).
FirstSegment(key) ==
  IF HasSeparator(key) THEN SubSeq(key, 1, indexOf(key, Separator) - 1) ELSE key

AfterSeparator(key) == SubSeq(key, indexOf(key, Separator) + 2, Len(key))

SecondSegment(key) == FirstSegment(AfterSeparator(key))

endsWith(s, p) == Len(p) <= Len(s) /\ SubSeq(s, Len(s) - Len(p) + 1, Len(s)) = p

\* A single clause with a key and a value, and no allow-list; the key has no
\* empty piece between, before or after its "__".
OneClause ==
  /\ SortAndFilterCalled /\ request.query.filter # <<>>
  /\ ~request.config.filterable.configured
  /\ Len(FilterClauses) = 1
  /\ ClauseKey(FilterClauses[1]) # <<>> /\ ClauseValue(FilterClauses[1]) # <<>>
  /\ LET pieces == split(ClauseKey(FilterClauses[1]), Separator)
     IN  \A i \in 1..Len(pieces) : pieces[i] # <<>>

\* C19: a clause splits on its first ':' into key and value, the value
\* keeping any further ':'; a key field__operator with a recognized operator
\* yields that field with that operator, a key without "__" yields the field
\* with operator eq.  (Stated for a parameter of one clause.)
C19_FilterClauseParsed ==
  OneClause =>
    LET key   == ClauseKey(FilterClauses[1])
        value == ClauseValue(FilterClauses[1])
    IN  /\ ~HasSeparator(key) =>
              FilterParsed = <<[key |-> key, op |-> EQUALS, value |-> value]>>
        /\ \A op \in SearchOps :
              endsWith(key, Separator \o op) =>
                FilterParsed =
                  <<[key |-> SubSeq(key, 1, Len(key) - Len(op) - 2),
                     op |-> op, value |-> value]>>

\* Field and operator of a key, read off its first two "__" segments.
FieldOf(key) == FirstSegment(key)

OperatorOf(key) ==
  IF HasSeparator(key) /\ SecondSegment(key) \in SearchOps
    THEN SecondSegment(key) ELSE EQUALS

\* The clauses the parser keeps: key and value non-empty, field allowed.
KeptClauses ==
  {i \in 1..Len(FilterClauses) :
     /\ ClauseKey(FilterClauses[i]) # <<>>
     /\ ClauseValue(FilterClauses[i]) # <<>>
     /\ \/ ~request.config.filterable.configured
        \/ includes(request.config.filterable.names,
                    FieldOf(ClauseKey(FilterClauses[i])))}

\* The last kept clause that names field f.
LastClauseOf(f) ==
  FilterClauses[LastOf({i \in KeptClauses : FieldOf(ClauseKey(FilterClauses[i])) = f})]

\* C19 as amended: a clause splits on its first ':' into key and value, the
\* value keeping any further ':'; the field is the key up to its first "__"
\* and the operator the token between the first and the second "__" when it
\* is a recognized operator, eq otherwise (and for a key without "__"); the
\* spec holds each field of a kept clause once, as its last clause gives it.
C19_FilterFirstSegments ==
  (SortAndFilterCalled /\ request.query.filter # <<>>) =>
    /\ {FilterParsed[j].key : j \in 1..Len(FilterParsed)}
          = {FieldOf(ClauseKey(FilterClauses[i])) : i \in KeptClauses}
    /\ \A j, k \in 1..Len(FilterParsed) :
          (j # k) => (FilterParsed[j].key # FilterParsed[k].key)
    /\ \A j \in 1..Len(FilterParsed) :
          LET clause == LastClauseOf(FilterParsed[j].key)
          IN  /\ FilterParsed[j].op = OperatorOf(ClauseKey(clause))
              /\ FilterParsed[j].value = ClauseValue(clause)

\* C19 witness: a clause with a recognized operator other than eq whose
\* value holds a ':'.
C19_Witness ==
  /\ SortAndFilterCalled /\ Len(FilterParsed) = 1
  /\ FilterParsed[1].op = <<"g", "t">>
  /\ FilterParsed[1].key # <<>>
  /\ indexOf(FilterParsed[1].value, <<":">>) # 0

\* A single clause whose key is field__token, with one "__" and a token that
\* is no operator.
UnrecognizedToken ==
  /\ OneClause
  /\ HasSeparator(ClauseKey(FilterClauses[1]))
  /\ ~HasSeparator(AfterSeparator(ClauseKey(FilterClauses[1])))
  /\ SecondSegment(ClauseKey(FilterClauses[1])) \notin SearchOps

HoldsLinkUrls == via = "http" /\ resp.status = "ok"

LinkNames == {"first", "last", "next", "prev"}

LinkUrlsOf == {resp.urls[l] : l \in LinkNames} \ {Null}

\* The pagination keys of the route's paginator.
PaginationKeys ==
  IF request.route = "/tests/cursor" THEN {"cursor", "cursorDir", "pageSize"}
  ELSE {"page", "pageSize"}

\* The query a link's URL parses back into: every key it carries, once.
ParsedUrl(url) == [k \in DOMAIN url |-> Str(url[k])]

\* C14: every link of either paginator carries every original query parameter
\* that is not a pagination key with its value unchanged, and no key beyond
\* the original ones and the pagination keys.
C14_LinksPreserveQuery ==
  HoldsLinkUrls =>
    \A url \in LinkUrlsOf :
      /\ \A k \in DOMAIN request.query \ PaginationKeys :
            k \in DOMAIN url /\ ParsedUrl(url)[k] = request.query[k]
      /\ DOMAIN url \ PaginationKeys \subseteq DOMAIN request.query

HoldsCursorUrls == HoldsLinkUrls /\ request.route = "/tests/cursor"

\* The records at the edges of the page: its first and last row and the rows
\* next to them in the ordering; the cursor's own record when the page is
\* empty.
BoundaryIds ==
  IF Results = <<>> THEN {query.cursor} \cap DOMAIN table
  ELSE { AllOrdered[k].id :
           k \in { PosOf(Results[1]) - 1, PosOf(Results[1]),
                   PosOf(Results[Len(Results)]), PosOf(Results[Len(Results)]) + 1 }
                 \cap (1..Len(AllOrdered)) }

\* C15: links.first and links.last carry no cursor and cursorDir next / prev;
\* a non-null links.next / links.prev carries its direction and, as cursor,
\* the identifier of a boundary record.
C15_CursorLinkUrls ==
  HoldsCursorUrls =>
    /\ "cursor" \notin DOMAIN resp.urls.first
    /\ resp.urls.first["cursorDir"] = DirChars("next")
    /\ "cursor" \notin DOMAIN resp.urls.last
    /\ resp.urls.last["cursorDir"] = DirChars("prev")
    /\ \A d \in {"next", "prev"} :
          resp.urls[d] # Null =>
            /\ resp.urls[d]["cursorDir"] = DirChars(d)
            /\ "cursor" \in DOMAIN resp.urls[d]
            /\ \E id \in BoundaryIds : resp.urls[d]["cursor"] = Render(id)

\* ------------------------------------------------- claims: the filters
\* A clause the parser is to keep: key and value non-empty, field allowed.
ClauseKept(clause) ==
  /\ ClauseKey(clause) # <<>>
  /\ ClauseValue(clause) # <<>>
  /\ \/ ~request.config.filterable.configured
     \/ includes(request.config.filterable.names, FieldOf(ClauseKey(clause)))

\* The filter parameter without the clauses that are to be omitted.
FilterWithoutOmitted == join(SelectSeq(FilterClauses, ClauseKept), <<",">>)

FilterGiven == SortAndFilterCalled /\ request.query.filter # <<>>

\* C21: the parsed filter spec has no clause with an empty key or value and,
\* under an allow-list, no field outside it; the spec is the one the
\* parameter without the omitted clauses parses to.
C21_FilterOmitsClauses ==
  FilterGiven =>
    /\ \A i \in 1..Len(FilterParsed) :
          /\ FilterParsed[i].key # <<>>
          /\ FilterParsed[i].value # <<>>
          /\ request.config.filterable.configured =>
               includes(request.config.filterable.names, FilterParsed[i].key)
    /\ FilterParsed = SortAndFilterFilter(FilterWithoutOmitted, request.config.filterable)

\* ------------------------------------------------- claims: the builders
QbBuilt == via = "qb"

OptionsAsked == via = "options"

ParamsGiven == request.params

\* The filter names columns of the entity only, no relation path.
PlainFilter == \A i \in 1..Len(ParamsGiven.filter) : ~IsDotted(ParamsGiven.filter[i].key)

\* One alternative of a filter field tested on a row by the field's operator.
AlternativeMatches(row, entry, alt) ==
  SqlHolds(columnValue(row, entry.key), searchOpToOperator(entry.op),
           IF entry.op = HAS THEN Arr(<<alt>>) ELSE Str(paramTransform(alt, entry.op)))

FieldMatches(row, entry) ==
  \E n \in 1..Len(alternatives(entry.value)) :
     AlternativeMatches(row, entry, alternatives(entry.value)[n])

Wrapped(alt, op) ==
  CASE op \in {CONTAINS, ICONTAINS} -> <<"%">> \o alt \o <<"%">>
    [] op = STARTSWITH -> alt \o <<"%">>
    [] op = ENDSWITH   -> <<"%">> \o alt
    [] OTHER           -> alt

OptionsReturned == OptionsAsked /\ resp.status = "ok"

\* C23: in both modes every alternative is bound as its operator transforms
\* it - wildcards on both sides for contains / icontains, a trailing one for
\* startswith, a leading one for endswith, the value itself otherwise - and
\* has tests that the alternative is an element of the multi-valued column.
C23_OperatorTransforms ==
  /\ QbBuilt =>
       \A i \in 1..Len(ParamsGiven.filter) :
          LET entry == ParamsGiven.filter[i]
              alts  == alternatives(entry.value)
          IN  \A n \in 1..Len(alts) :
                 LET cond == resp.qb.wheres[i][n]
                 IN  IF entry.op = HAS
                       THEN \A row \in Rows(table) :
                               SqlHolds(row.tags, cond.operator, cond.parameter)
                                 <=> includes(row.tags, alts[n])
                       ELSE cond.parameter = Str(Wrapped(alts[n], entry.op))
  /\ OptionsReturned =>
       \A i \in 1..Len(ParamsGiven.filter) :
          LET entry == ParamsGiven.filter[i]
              cond  == resp.options.where[i].condition
          IN  IF entry.op = HAS
                THEN \A row \in Rows(table) :
                        FindHolds(row.tags, cond) <=> includes(row.tags, entry.value)
                ELSE cond.value = Str(Wrapped(entry.value, entry.op))

\* A filter field of the request has more than one alternative.
SomeFieldHasAlternatives ==
  \E i \in 1..Len(ParamsGiven.filter) :
     Len(alternatives(ParamsGiven.filter[i].value)) > 1

\* C24: the repository helper raises its error, and returns no options,
\* exactly when some filter field has more than one '|'-separated
\* alternative; otherwise it returns options and raises nothing.
C24_RepoRefusesAlternatives ==
  OptionsAsked =>
    IF SomeFieldHasAlternatives
      THEN resp.status = "error" /\ resp.error = "Error" /\ "options" \notin DOMAIN resp
      ELSE resp.status = "ok" /\ "options" \in DOMAIN resp

\* C24 witness: the error is raised for a filter whose second field alone has
\* several alternatives.
C24_Witness ==
  /\ OptionsAsked /\ resp.status = "error"
  /\ Len(ParamsGiven.filter) = 2
  /\ Len(alternatives(ParamsGiven.filter[1].value)) = 1
  /\ Len(alternatives(ParamsGiven.filter[2].value)) > 1

\* The joins the query builder has registered, and the relations they join.
JoinsRegistered == resp.qb.joins

\* Relation and field of a relation path: the text before its first '.' and
\* the text between its first and its second '.'.
RelationOf(path) == SubSeq(path, 1, indexOf(path, <<".">>) - 1)

FieldOfPath(path) ==
  LET rest == SubSeq(path, indexOf(path, <<".">>) + 1, Len(path))
  IN  IF indexOf(rest, <<".">>) = 0 THEN rest
      ELSE SubSeq(rest, 1, indexOf(rest, <<".">>) - 1)

\* The relation-path references of the request, sort entries first.
PathReferences ==
  LET ref(kind, entries) ==
        [i \in 1..Len(entries) |-> [kind |-> kind, path |-> entries[i].key]]
      dotted(r) == IsDotted(r.path)
  IN  SelectSeq(ref("Sort", ParamsGiven.sort) \o ref("Filter", ParamsGiven.filter),
                dotted)

\* C28: one join per relation - a relation referenced again (another field
\* of it, or by a filter after a sort) adds no join.
C28_JoinPerRelation ==
  QbBuilt =>
    /\ \A i, j \in 1..Len(JoinsRegistered) :
          JoinsRegistered[i].property = JoinsRegistered[j].property => i = j
    /\ \A k \in 1..Len(PathReferences) :
          \E i \in 1..Len(JoinsRegistered) :
             JoinsRegistered[i].property
               = TestAlias \o <<".">> \o RelationOf(PathReferences[k].path)

\* C28 as amended: one join per relation-path reference, in the order of the
\* references, each on the referenced relation under the alias
\* leftJoinAnd<Sort|Filter>_<relation>_<field>.
C28_JoinPerReference ==
  QbBuilt =>
    /\ Len(JoinsRegistered) = Len(PathReferences)
    /\ \A k \in 1..Len(PathReferences) :
          LET r == PathReferences[k]
          IN  /\ JoinsRegistered[k].property = TestAlias \o <<".">> \o RelationOf(r.path)
              /\ JoinsRegistered[k].alias
                   = <<"leftJoinAnd", r.kind, "_">> \o RelationOf(r.path)
                       \o <<"_">> \o FieldOfPath(r.path)

\* C28 witness: two fields of one relation are sorted by and one of them is
\* filtered on: three joins of the same relation.
C28_Witness ==
  /\ QbBuilt
  /\ Len(ParamsGiven.sort) = 2 /\ Len(ParamsGiven.filter) = 1
  /\ Len(JoinsRegistered) = 3
  /\ \A i \in 1..3 : JoinsRegistered[i].property = JoinsRegistered[1].property
  /\ ParamsGiven.filter[1].key = ParamsGiven.sort[1].key

\* ------------------------------------------ claims: the cursor paginator
\* A cursor request has been made, whatever its outcome.
CursorRequested == via \in {"first", "last", "cursor", "next", "prev"}

\* The ordering the caller asked for, as qb.sortAndFilter registers it.
CallerOrder == sortAndFilterOrder(<<>>, sort)

CallerOrdersById == \E i \in 1..Len(CallerOrder) : CallerOrder[i].key = "id"

\* C27: the effective ordering of a cursor request ends in the identifier:
\* appended last, ASC, when the caller's sort lacks it; the caller's own
\* entry for it, position and direction unchanged, when the caller has one.
C27_OrderEndsInId ==
  CursorRequested =>
    LET effective == effectiveOrder(sort)
    IN  /\ effective[Len(effective)].key = "id"
        /\ ~CallerOrdersById =>
             effective = Append(CallerOrder, [key |-> "id", order |-> "ASC"])
        /\ CallerOrdersById => effective = CallerOrder

\* The identifier a cursor request seeks from: its cursor, or the first
\* (last, going backward) record's when it has none.
TraversalOrder ==
  IF cursorDir(query) = "prev" THEN reverseAllOrderBy(effectiveOrder(sort))
  ELSE effectiveOrder(sort)

AnchorId ==
  IF query.cursor # 0 THEN query.cursor
  ELSE getOne(Rows(table), TraversalOrder).id

\* The anchor values: the columns of the anchor record; of a cursor that
\* names no record only the identifier is ever read.
Anchor ==
  IF AnchorId \in DOMAIN table THEN table[AnchorId] ELSE Row(AnchorId, 0, 0)

\* r is at or after the anchor: its ordering-key tuple equals the anchor's
\* or follows it lexicographically in the traversal ordering.
AtOrAfterAnchor(r) ==
  \/ \A i \in 1..Len(TraversalOrder) :
        r[TraversalOrder[i].key] = Anchor[TraversalOrder[i].key]
  \/ Before(Anchor, r, TraversalOrder)

SeekSelected ==
  {r \in Rows(table) : seekWhere(r, TraversalOrder, AnchorId, Anchor)}

\* C26: the seek predicate of an answered cursor request selects exactly the
\* records at or after the anchor in the traversal ordering, for one
\* ordering column and for several.
C26_SeekFromAnchor ==
  HoldsCursorPage => SeekSelected = {r \in Rows(table) : AtOrAfterAnchor(r)}

\* C26 witness: a backward request under a two-column ordering; the predicate
\* keeps a record that shares the anchor's first column and one that does
\* not, and leaves some record out.
C26_Witness ==
  /\ HoldsCursorPage /\ cursorDir(query) = "prev" /\ Len(TraversalOrder) = 2
  /\ \E r \in SeekSelected \ {Anchor} :
        r[TraversalOrder[1].key] = Anchor[TraversalOrder[1].key]
  /\ \E r \in SeekSelected : r[TraversalOrder[1].key] # Anchor[TraversalOrder[1].key]
  /\ SeekSelected # Rows(table)

\* C29: a cursor request without a cursor, forward or backward, over a table
\* with no records is answered with an empty page whose next and prev links
\* are null.
C29_EmptyTableEmptyPage ==
  (via \in {"first", "last"} /\ DOMAIN table = {}) =>
    /\ resp.status = "ok"
    /\ resp.results = <<>>
    /\ resp.links.next = Null /\ resp.links.prev = Null

\* ------------------------------------------ claims: paginate with options
PaginateAnswered == via = "paginate" /\ resp.status = "ok"

\* C30: whatever options the caller passes, the repository is queried with
\* skip = (page - 1) * pageSize and take = pageSize, and the results are the
\* rows of the window that meta.page and meta.pageSize name.
C30_OptionsKeepWindow ==
  PaginateAnswered =>
    LET window == pagedWindow(resp.meta.page, resp.meta.pageSize)
        order  == IF "order" \in DOMAIN request.options THEN request.options.order
                  ELSE <<>>
        sorted == OrderedRows(Rows(table), order)
    IN  /\ issued = window
        /\ resp.results = SubSeq(sorted, window.skip + 1,
                                 IF window.skip + window.take < Len(sorted)
                                   THEN window.skip + window.take ELSE Len(sorted))

\* ------------------------------------------- claims: a failing data source
\* A data-source call of the request was rejected.
CallRejected ==
  /\ via = "failing"
  /\ request.failAt >= 1
  /\ request.failAt <= (IF request.route = "/tests" THEN Len(pagedCalls)
                        ELSE Len(cursorCalls(table, sort, query)))

====
